---------------------------- MODULE Spec2Model ----------------------------
(***************************************************************************)
(* A model of the cloud-storage CLI core: the validation layer             *)
(* (internal/util), the structured API error (internal/client/errors) and  *)
(* the authenticated HTTP transport layer (internal/client).               *)
(*                                                                         *)
(* Strings are sequences of one-character tokens.  Str("abc") turns a      *)
(* literal into such a sequence; the NUL byte, which a literal cannot      *)
(* hold, is the token NUL.  path/filepath is modelled as on POSIX.         *)
(***************************************************************************)
EXTENDS Integers, Sequences, FiniteSets, TLC

VARIABLES
    client,   \* the Client struct: BaseURL, AccessToken, APIKey
    fs,       \* the local filesystem as the last operation left it
    call,     \* the last transport operation: inputs, request sent, outcome
    fn,       \* pure-function harness: the function under evaluation
    arg,      \* pure-function harness: its argument
    res,      \* pure-function harness: its result, once applied
    config    \* the config file, the environment and viperInstance

vars == <<client, fs, call, fn, arg, res, config>>

---------------------------------------------------------------------------
(* Bounds of the model *)

\* longest enumerated input string
MaxLen == 4

---------------------------------------------------------------------------
(* Strings *)

Str(s) == [i \in 1..Len(s) |-> SubSeq(s, i, i)]

NUL == "\\x00"

\* printable ASCII: code points 32..95, and 97..126 (the grave accent, 96,
\* is left out)
Ascii32 ==
    Str(" !\"#$%&'()*+,-./0123456789:;<=>?@ABCDEFGHIJKLMNOPQRSTUVWXYZ[\\]^_")

Ascii97 == Str("abcdefghijklmnopqrstuvwxyz{|}~")

ControlCode == [c \in {NUL, "\t", "\n", "\r"} |->
                  CASE c = NUL -> 0 [] c = "\t" -> 9 [] c = "\n" -> 10 [] c = "\r" -> 13]

AsciiCode == [c \in {Ascii32[i] : i \in 1..Len(Ascii32)}
                     \cup {Ascii97[i] : i \in 1..Len(Ascii97)} |->
                  IF \E i \in 1..Len(Ascii32) : Ascii32[i] = c
                  THEN 31 + (CHOOSE i \in 1..Len(Ascii32) : Ascii32[i] = c)
                  ELSE 96 + (CHOOSE i \in 1..Len(Ascii97) : Ascii97[i] = c)]

\* the code point of a character (a rune of the range loop)
CodePoint(c) == IF c \in DOMAIN ControlCode THEN ControlCode[c] ELSE AsciiCode[c]

Chr(n) == IF n < 96 THEN Ascii32[n - 31] ELSE Ascii97[n - 96]

RECURSIVE StringsUpTo(_, _)
StringsUpTo(A, n) ==
    IF n = 0 THEN {<<>>}
    ELSE LET S == StringsUpTo(A, n - 1) IN S \cup {Append(s, c) : s \in S, c \in A}

\* strings.Contains
Contains(s, sub) ==
    \E i \in 1..(Len(s) - Len(sub) + 1) : SubSeq(s, i, i + Len(sub) - 1) = sub

\* strings.HasPrefix
HasPrefix(s, p) == Len(s) >= Len(p) /\ SubSeq(s, 1, Len(p)) = p

\* strings.HasSuffix
HasSuffix(s, p) == Len(s) >= Len(p) /\ SubSeq(s, Len(s) - Len(p) + 1, Len(s)) = p

\* strings.TrimSuffix
TrimSuffix(s, p) == IF HasSuffix(s, p) THEN SubSeq(s, 1, Len(s) - Len(p)) ELSE s

\* strings.ReplaceAll: non-overlapping occurrences, left to right
RECURSIVE ReplaceAll(_, _, _)
ReplaceAll(s, old, new) ==
    IF s = <<>> THEN <<>>
    ELSE IF HasPrefix(s, old)
         THEN new \o ReplaceAll(SubSeq(s, Len(old) + 1, Len(s)), old, new)
         ELSE <<Head(s)>> \o ReplaceAll(Tail(s), old, new)

ToUpper(s) ==
    [i \in 1..Len(s) |-> IF CodePoint(s[i]) >= 97 /\ CodePoint(s[i]) <= 122
                         THEN Chr(CodePoint(s[i]) - 32) ELSE s[i]]

ToLower(s) ==
    [i \in 1..Len(s) |-> IF CodePoint(s[i]) >= 65 /\ CodePoint(s[i]) <= 90
                         THEN Chr(CodePoint(s[i]) + 32) ELSE s[i]]

IsSpace(c) == c \in {" ", "\t", "\n", "\r"}

\* strings.TrimSpace
RECURSIVE TrimLeft(_)
TrimLeft(s) == IF s # <<>> /\ IsSpace(Head(s)) THEN TrimLeft(Tail(s)) ELSE s

RECURSIVE TrimRight(_)
TrimRight(s) ==
    IF s # <<>> /\ IsSpace(s[Len(s)]) THEN TrimRight(SubSeq(s, 1, Len(s) - 1)) ELSE s

TrimSpace(s) == TrimRight(TrimLeft(s))

---------------------------------------------------------------------------
(* path/filepath (POSIX) *)

RECURSIVE StripTrailingSlashes(_)
StripTrailingSlashes(p) ==
    IF p # <<>> /\ p[Len(p)] = "/"
    THEN StripTrailingSlashes(SubSeq(p, 1, Len(p) - 1))
    ELSE p

\* the index of the last "/" of p, 0 when there is none
LastSlash(p) ==
    IF \E i \in 1..Len(p) : p[i] = "/"
    THEN CHOOSE i \in 1..Len(p) : p[i] = "/" /\ \A j \in (i + 1)..Len(p) : p[j] # "/"
    ELSE 0

\* filepath.Base
Base(path) ==
    IF path = <<>> THEN Str(".")
    ELSE LET p == StripTrailingSlashes(path)
             q == SubSeq(p, LastSlash(p) + 1, Len(p))
         IN  IF q = <<>> THEN Str("/") ELSE q

---------------------------------------------------------------------------
(* Errors returned by the pure functions: nil, or an error with a message *)

Nil == [isErr |-> FALSE, msg |-> <<>>]

Errorf(m) == [isErr |-> TRUE, msg |-> m]

---------------------------------------------------------------------------
(* internal/util: validation *)

\* ValidatePath with ".." looked for only as a whole path component
ValidatePath_ComponentTraversal(path) ==
    IF path = <<>> THEN Errorf(Str("path cannot be empty"))
    ELSE IF ~HasPrefix(path, Str("/")) THEN Errorf(Str("path must start with '/'"))
    ELSE IF Contains(path \o Str("/"), Str("/../"))
         THEN Errorf(Str("path cannot contain '..'"))
    ELSE IF Contains(path, Str("\\"))
         THEN Errorf(Str("path must use forward slashes, not backslashes"))
    ELSE IF Contains(path, <<NUL>>) THEN Errorf(Str("path cannot contain null bytes"))
    ELSE IF \E i \in 1..Len(path) : CodePoint(path[i]) < 32
         THEN Errorf(Str("path cannot contain control characters"))
    ELSE Nil

\* ValidatePath: the first failing check decides the message
ValidatePath(path) ==
    IF path = <<>> THEN Errorf(Str("path cannot be empty"))
    ELSE IF ~HasPrefix(path, Str("/")) THEN Errorf(Str("path must start with '/'"))
    ELSE IF Contains(path, Str("..")) THEN Errorf(Str("path cannot contain '..'"))
    ELSE IF Contains(path, Str("\\"))
         THEN Errorf(Str("path must use forward slashes, not backslashes"))
    ELSE IF Contains(path, <<NUL>>) THEN Errorf(Str("path cannot contain null bytes"))
    ELSE IF \E i \in 1..Len(path) : CodePoint(path[i]) < 32
         THEN Errorf(Str("path cannot contain control characters"))
    ELSE Nil

\* reservedNames of ValidateFilename
ReservedNames ==
    { Str("CON"), Str("PRN"), Str("AUX"), Str("NUL"),
      Str("COM1"), Str("COM2"), Str("COM3"), Str("COM4"), Str("COM5"),
      Str("COM6"), Str("COM7"), Str("COM8"), Str("COM9"),
      Str("LPT1"), Str("LPT2"), Str("LPT3"), Str("LPT4"), Str("LPT5"),
      Str("LPT6"), Str("LPT7"), Str("LPT8"), Str("LPT9") }

\* the reserved-name loop with a bare prefix test, no dot boundary
ReservedHits_NoDotBoundary(baseName) ==
    LET upperName == ToUpper(baseName)
    IN  { r \in ReservedNames : HasPrefix(upperName, r) }

\* the reserved-name loop of ValidateFilename: the names the upper-cased base
\* name equals or starts with, followed by a dot
ReservedHits(baseName) ==
    LET upperName == ToUpper(baseName)
    IN  { r \in ReservedNames : upperName = r \/ HasPrefix(upperName, r \o Str(".")) }

\* ValidateFilename refusing every name that contains "..", as ValidatePath does
ValidateFilename_NoDotDot(filename) ==
    IF filename = <<>> THEN Errorf(Str("filename cannot be empty"))
    ELSE IF Contains(filename, Str("\\"))
         THEN Errorf(Str("filename cannot contain path separators"))
    ELSE IF Base(filename) # filename
         THEN Errorf(Str("filename cannot contain path separators"))
    ELSE IF Contains(filename, Str(".."))
         THEN Errorf(Str("filename cannot be '.' or '..'"))
    ELSE IF Contains(filename, <<NUL>>)
         THEN Errorf(Str("filename cannot contain null bytes"))
    ELSE IF \E i \in 1..Len(filename) : CodePoint(filename[i]) < 32
         THEN Errorf(Str("filename cannot contain control characters"))
    ELSE IF ReservedHits(Base(filename)) # {}
         THEN Errorf(Str("filename cannot be a reserved name: ")
                     \o (CHOOSE r \in ReservedHits(Base(filename)) : TRUE))
    ELSE Nil

ValidateFilename(filename) ==
    IF filename = <<>> THEN Errorf(Str("filename cannot be empty"))
    ELSE IF Contains(filename, Str("\\"))
         THEN Errorf(Str("filename cannot contain path separators"))
    ELSE IF Base(filename) # filename
         THEN Errorf(Str("filename cannot contain path separators"))
    ELSE IF filename = Str(".") \/ filename = Str("..")
         THEN Errorf(Str("filename cannot be '.' or '..'"))
    ELSE IF Contains(filename, <<NUL>>)
         THEN Errorf(Str("filename cannot contain null bytes"))
    ELSE IF \E i \in 1..Len(filename) : CodePoint(filename[i]) < 32
         THEN Errorf(Str("filename cannot contain control characters"))
    ELSE IF ReservedHits(Base(filename)) # {}
         THEN Errorf(Str("filename cannot be a reserved name: ")
                     \o (CHOOSE r \in ReservedHits(Base(filename)) : TRUE))
    ELSE Nil

\* [0-9a-fA-F]
IsHexDigit(c) ==
    LET n == CodePoint(c)
    IN  (n >= 48 /\ n <= 57) \/ (n >= 97 /\ n <= 102) \/ (n >= 65 /\ n <= 70)

HyphenPositions == {9, 14, 19, 24}

\* the pattern written with lower-case hexadecimal digits only
uuidRegexMatch_LowerOnly(id) ==
    /\ Len(id) = 36
    /\ \A i \in 1..36 : IF i \in HyphenPositions THEN id[i] = "-"
                         ELSE IsHexDigit(id[i]) /\ CodePoint(id[i]) \notin 65..70

\* uuidRegex.MatchString: ^hex{8}-hex{4}-hex{4}-hex{4}-hex{12}$ over the whole text
uuidRegexMatch(id) ==
    /\ Len(id) = 36
    /\ \A i \in 1..36 : IF i \in HyphenPositions THEN id[i] = "-" ELSE IsHexDigit(id[i])

\* uuid.Parse of github.com/google/uuid, as ValidateUUID calls it: TRUE when
\* it returns no error.  It also reads the urn:uuid: form (45 characters), the
\* braced form (38) and the form without hyphens (32).
uuidParse(s) ==
    LET uuidParse36(t) ==
            /\ \A i \in HyphenPositions : t[i] = "-"
            /\ \A i \in (1..36) \ HyphenPositions : IsHexDigit(t[i])
    IN
    CASE Len(s) = 36 -> uuidParse36(s)
      [] Len(s) = 45 -> /\ ToUpper(SubSeq(s, 1, 9)) = Str("URN:UUID:")
                        /\ uuidParse36(SubSeq(s, 10, 45))
      [] Len(s) = 38 -> uuidParse36(SubSeq(s, 2, 37))
      [] Len(s) = 32 -> \A i \in 1..32 : IsHexDigit(s[i])
      [] OTHER -> FALSE

ValidateUUID(id) ==
    IF id = <<>> THEN Errorf(Str("UUID cannot be empty"))
    ELSE IF ~uuidRegexMatch(id)
         THEN Errorf(Str("invalid UUID format: ") \o id
                     \o Str(" (expected format: xxxxxxxx-xxxx-xxxx-xxxx-xxxxxxxxxxxx)"))
    ELSE IF ~uuidParse(id) THEN Errorf(Str("invalid UUID: invalid UUID format"))
    ELSE Nil

\* [a-zA-Z]
IsLetter(c) ==
    \/ CodePoint(c) >= 65 /\ CodePoint(c) <= 90
    \/ CodePoint(c) >= 97 /\ CodePoint(c) <= 122

\* [0-9]
IsDigit(c) == CodePoint(c) >= 48 /\ CodePoint(c) <= 57

\* [a-zA-Z0-9._%+\-]
IsLocalChar(c) == IsLetter(c) \/ IsDigit(c) \/ c \in {".", "_", "%", "+", "-"}

\* [a-zA-Z0-9.\-]
IsDomainChar(c) == IsLetter(c) \/ IsDigit(c) \/ c \in {".", "-"}

\* emailRegex with a final label of one letter or more
emailRegexMatch_ShortTLD(email) ==
    \E i \in 1..Len(email), j \in 1..Len(email) :
        /\ email[i] = "@" /\ email[j] = "."
        /\ i > 1 /\ \A k \in 1..(i - 1) : IsLocalChar(email[k])
        /\ j > i + 1 /\ \A k \in (i + 1)..(j - 1) : IsDomainChar(email[k])
        /\ Len(email) - j >= 1 /\ \A k \in (j + 1)..Len(email) : IsLetter(email[k])

\* emailRegex: the whole text is one or more local characters, '@', one or
\* more domain characters, '.', and two or more letters
emailRegexMatch(email) ==
    \E i \in 1..Len(email), j \in 1..Len(email) :
        /\ email[i] = "@" /\ email[j] = "."
        /\ i > 1 /\ \A k \in 1..(i - 1) : IsLocalChar(email[k])
        /\ j > i + 1 /\ \A k \in (i + 1)..(j - 1) : IsDomainChar(email[k])
        /\ Len(email) - j >= 2 /\ \A k \in (j + 1)..Len(email) : IsLetter(email[k])

ValidateEmail(email) ==
    IF email = <<>> THEN Errorf(Str("email cannot be empty"))
    ELSE IF ~emailRegexMatch(email) THEN Errorf(Str("invalid email format: ") \o email)
    ELSE Nil

\* the largest page size
MaxPageSize == 100

\* ValidatePageSize refusing the largest page size as well
ValidatePageSize_Exclusive(size) ==
    IF size <= 0 THEN Errorf(Str("page size must be greater than 0"))
    ELSE IF size >= MaxPageSize THEN Errorf(Str("page size must be at most 100"))
    ELSE Nil

ValidatePageSize(size) ==
    IF size <= 0 THEN Errorf(Str("page size must be greater than 0"))
    ELSE IF size > MaxPageSize THEN Errorf(Str("page size must be at most 100"))
    ELSE Nil

---------------------------------------------------------------------------
(* internal/client: the structured API error *)

\* NewAPIError
NewAPIError(statusCode, message) ==
    [StatusCode |-> statusCode, Message |-> message, Details |-> <<>>,
     Method |-> <<>>, URL |-> <<>>]

\* the %d verb
Itoa(n) == Str(ToString(n))

\* APIError.Error
Error(e) ==
    LET baseMsg ==
            IF e.Method # <<>> /\ e.URL # <<>>
            THEN Str("API error (") \o Itoa(e.StatusCode) \o Str(") [")
                     \o e.Method \o Str(" ") \o e.URL \o Str("]")
            ELSE Str("API error (") \o Itoa(e.StatusCode) \o Str(")")
    IN  IF e.Details # <<>>
        THEN baseMsg \o Str(": ") \o e.Message \o Str(" - ") \o e.Details
        ELSE IF e.Message # <<>>
             THEN baseMsg \o Str(": ") \o e.Message \o Str(" - ") \o e.Details
             ELSE baseMsg

---------------------------------------------------------------------------
(* internal/client: download file names *)

\* the first index >= i of s holding character c, 0 when there is none
IndexFrom(s, c, i) ==
    IF \E k \in i..Len(s) : s[k] = c
    THEN CHOOSE k \in i..Len(s) : s[k] = c /\ \A j \in i..(k - 1) : s[j] # c
    ELSE 0

\* one attempt of the pattern filename[*]?=(?:"([^"]+)"|([^;]+)) at index i:
\* the two capture groups, quoted first
MatchFilenameAt(h, i) ==
    LET j  == i + 8
        k  == IF j <= Len(h) /\ h[j] = "*" THEN j + 1 ELSE j
        v  == k + 1
        q  == IndexFrom(h, "\"", v + 1)
        e  == IF IndexFrom(h, ";", v) = 0 THEN Len(h) + 1 ELSE IndexFrom(h, ";", v)
    IN  IF ~(HasPrefix(SubSeq(h, i, Len(h)), Str("filename")) /\ k <= Len(h) /\ h[k] = "=")
        THEN [ok |-> FALSE, quoted |-> <<>>, bare |-> <<>>]
        ELSE IF v <= Len(h) /\ h[v] = "\"" /\ q >= v + 2
        THEN [ok |-> TRUE, quoted |-> SubSeq(h, v + 1, q - 1), bare |-> <<>>]
        ELSE IF e > v
        THEN [ok |-> TRUE, quoted |-> <<>>, bare |-> SubSeq(h, v, e - 1)]
        ELSE [ok |-> FALSE, quoted |-> <<>>, bare |-> <<>>]

\* extractFilenameFromContentDisposition: the leftmost match decides
extractFilenameFromContentDisposition(header) ==
    IF header = <<>> THEN <<>>
    ELSE IF \A i \in 1..Len(header) : ~MatchFilenameAt(header, i).ok THEN <<>>
    ELSE LET i == CHOOSE k \in 1..Len(header) :
                      /\ MatchFilenameAt(header, k).ok
                      /\ \A j \in 1..(k - 1) : ~MatchFilenameAt(header, j).ok
             m == MatchFilenameAt(header, i)
         IN  IF m.quoted # <<>> THEN TrimSpace(m.quoted)
             ELSE IF m.bare # <<>> THEN TrimSpace(m.bare)
             ELSE <<>>

\* sanitizeFilename with the base name taken before the separators are replaced
sanitizeFilename_BaseFirst(filename) ==
    LET b == Base(filename)
        f == ReplaceAll(ReplaceAll(ReplaceAll(b, Str("/"), Str("_")),
                                   Str("\\"), Str("_")), Str(".."), Str("_"))
    IN  IF f = <<>> \/ f = Str(".") \/ f = Str("..") THEN Str("download") ELSE f

\* sanitizeFilename
sanitizeFilename(filename) ==
    LET f1 == ReplaceAll(filename, Str("/"), Str("_"))
        f2 == ReplaceAll(f1, Str("\\"), Str("_"))
        f3 == ReplaceAll(f2, Str(".."), Str("_"))
        f4 == Base(f3)
    IN  IF f4 = <<>> \/ f4 = Str(".") \/ f4 = Str("..") THEN Str("download") ELSE f4

\* the last element of strings.Split(path, "/")
LastPart(path) == SubSeq(path, LastSlash(path) + 1, Len(path))

\* ResolveFilename looking at the request path before the header
ResolveFilename_PathFirst(contentDisposition, path) ==
    LET filename == extractFilenameFromContentDisposition(contentDisposition)
    IN  IF LastPart(path) # Str("download") /\ LastPart(path) # <<>>
        THEN LastPart(path)
        ELSE IF filename # <<>> THEN sanitizeFilename(filename)
        ELSE Str("download")

\* DownloadFile, the file name: from the header when it names one, else from
\* the request path, else "download"
ResolveFilename(contentDisposition, path) ==
    LET filename == extractFilenameFromContentDisposition(contentDisposition)
    IN  IF filename # <<>> THEN sanitizeFilename(filename)
        ELSE IF LastPart(path) # Str("download") /\ LastPart(path) # <<>>
             THEN LastPart(path)
             ELSE Str("download")

---------------------------------------------------------------------------
(* path/filepath (POSIX): Clean, Join, Dir *)

\* the elements of p between slashes
RECURSIVE SplitSlash(_)
SplitSlash(p) ==
    IF IndexFrom(p, "/", 1) = 0 THEN <<p>>
    ELSE <<SubSeq(p, 1, IndexFrom(p, "/", 1) - 1)>>
             \o SplitSlash(SubSeq(p, IndexFrom(p, "/", 1) + 1, Len(p)))

\* the elements of a cleaned path: "" and "." dropped, ".." taking back the
\* element before it (or kept, in a relative path that has none to take back)
RECURSIVE CleanElements(_, _, _)
CleanElements(elems, stack, rooted) ==
    IF elems = <<>> THEN stack
    ELSE LET e == Head(elems)
         IN  IF e = <<>> \/ e = Str(".") THEN CleanElements(Tail(elems), stack, rooted)
             ELSE IF e = Str("..")
                  THEN IF stack # <<>> /\ stack[Len(stack)] # Str("..")
                       THEN CleanElements(Tail(elems), SubSeq(stack, 1, Len(stack) - 1), rooted)
                       ELSE IF rooted THEN CleanElements(Tail(elems), stack, rooted)
                       ELSE CleanElements(Tail(elems), Append(stack, e), rooted)
                  ELSE CleanElements(Tail(elems), Append(stack, e), rooted)

RECURSIVE JoinSlash(_)
JoinSlash(elems) ==
    IF elems = <<>> THEN <<>>
    ELSE IF Len(elems) = 1 THEN elems[1]
    ELSE elems[1] \o Str("/") \o JoinSlash(Tail(elems))

\* filepath.Clean
Clean(p) ==
    IF p = <<>> THEN Str(".")
    ELSE LET rooted == p[1] = "/"
             body   == JoinSlash(CleanElements(SplitSlash(p), <<>>, rooted))
         IN  IF rooted THEN Str("/") \o body
             ELSE IF body = <<>> THEN Str(".") ELSE body

\* filepath.Join of two non-empty elements
Join(a, b) == Clean(a \o Str("/") \o b)

\* filepath.Dir
Dir(p) == Clean(SubSeq(p, 1, LastSlash(p)))

---------------------------------------------------------------------------
(* encoding/json: a body is carried as its bytes together with the JSON      *)
(* value those bytes spell (kind "invalid" when they spell none)             *)

\* a JSON member value: its type t ("string", "number" or "null"), and its
\* text s or integer n
JString(x) == [t |-> "string", s |-> Str(x), n |-> 0]

JInvalid == [kind |-> "invalid", fields |-> <<>>]

JObject(f) == [kind |-> "object", fields |-> f]

JOther(k) == [kind |-> k, fields |-> <<>>]

\* json.Unmarshal(body, &apiErr) into a zero APIError: whether err == nil
\* StatusCode is an int and the other four fields are strings; the decoder
\* can store a member that is absent, null, or of the field's type
UnmarshalAPIErrorOK(j) ==
    \/ j.kind = "null"
    \/ /\ j.kind = "object"
       /\ \A k \in {"statusCode", "message", "details", "method", "url"} :
             k \in DOMAIN j.fields =>
                 j.fields[k].t \in {"null", IF k = "statusCode" THEN "number" ELSE "string"}

\* the APIError it leaves when err == nil
UnmarshalAPIError(j) ==
    LET StringField(k) ==
            IF k \in DOMAIN j.fields /\ j.fields[k].t = "string"
            THEN j.fields[k].s ELSE <<>>
    IN
    [StatusCode |-> IF "statusCode" \in DOMAIN j.fields
                       /\ j.fields["statusCode"].t = "number"
                    THEN j.fields["statusCode"].n ELSE 0,
     Message    |-> StringField("message"),
     Details    |-> StringField("details"),
     Method     |-> StringField("method"),
     URL        |-> StringField("url")]

---------------------------------------------------------------------------
(* internal/client: the client *)

\* NewClientWithConfig
NewClientWithConfig(baseURL, accessToken, apiKey) ==
    [BaseURL |-> baseURL, AccessToken |-> accessToken, APIKey |-> apiKey]

\* UpdateAuth pointing the client at another server as well
UpdateAuth_Rebase(c, accessToken, apiKey) ==
    [c EXCEPT !.BaseURL = Str("http://other"),
              !.AccessToken = accessToken, !.APIKey = apiKey]

\* UpdateAuth
UpdateAuth(c, accessToken, apiKey) ==
    [c EXCEPT !.AccessToken = accessToken, !.APIKey = apiKey]

urlParseOK(u) ==
    /\ \A i \in 1..Len(u) : CodePoint(u[i]) >= 32 /\ CodePoint(u[i]) # 127
    /\ \A i \in 1..Len(u) :
          u[i] = "%" => i + 2 <= Len(u) /\ IsHexDigit(u[i + 1]) /\ IsHexDigit(u[i + 2])

\* buildURL with the path concatenated as given
buildURL_NoSlash(c, path) ==
    LET fullURL == TrimSuffix(c.BaseURL, Str("/")) \o path
    IN  [ok |-> urlParseOK(fullURL), url |-> IF urlParseOK(fullURL) THEN fullURL ELSE <<>>]

\* buildURL
buildURL(c, path) ==
    LET p       == IF ~HasPrefix(path, Str("/")) THEN Str("/") \o path ELSE path
        baseURL == TrimSuffix(c.BaseURL, Str("/"))
        fullURL == baseURL \o p
    IN  [ok |-> urlParseOK(fullURL), url |-> IF urlParseOK(fullURL) THEN fullURL ELSE <<>>]

\* req.Header.Set
SetHeader(h, k, v) == [n \in DOMAIN h \cup {k} |-> IF n = k THEN v ELSE h[n]]

\* setAuthHeaders sending both credentials when both are set
setAuthHeaders_Both(c, h) ==
    LET h1 == IF c.APIKey # <<>> THEN SetHeader(h, "X-API-Key", c.APIKey) ELSE h
    IN  IF c.AccessToken # <<>>
        THEN SetHeader(h1, "Authorization", Str("Bearer ") \o c.AccessToken)
        ELSE h1

\* setAuthHeaders
setAuthHeaders(c, h) ==
    IF c.APIKey # <<>> THEN SetHeader(h, "X-API-Key", c.APIKey)
    ELSE IF c.AccessToken # <<>>
         THEN SetHeader(h, "Authorization", Str("Bearer ") \o c.AccessToken)
         ELSE h

\* an error value: nil, an *APIError, or another error with its text
NoError ==
    [kind |-> "nil", text |-> <<>>, api |-> NewAPIError(0, <<>>)]

GenericError(text) ==
    [kind |-> "error", text |-> text, api |-> NewAPIError(0, <<>>)]

APIErrorValue(e) ==
    [kind |-> "APIError", text |-> Error(e), api |-> e]

\* parseErrorResponse keeping what the body says of status, method and URL
parseErrorResponse_NoOverlay(resp, method, url) ==
    IF ~resp.readOK
    THEN [NewAPIError(resp.status, Str("Failed to read error response"))
             EXCEPT !.Method = method, !.URL = url]
    ELSE IF UnmarshalAPIErrorOK(resp.body.json)
    THEN UnmarshalAPIError(resp.body.json)
    ELSE [NewAPIError(resp.status,
                      IF resp.body.raw = <<>> THEN resp.statusLine ELSE resp.body.raw)
             EXCEPT !.Method = method, !.URL = url]

\* parseErrorResponse reporting the status line for every body that is not JSON
parseErrorResponse_StatusOnly(resp, method, url) ==
    IF ~resp.readOK
    THEN [NewAPIError(resp.status, Str("Failed to read error response"))
             EXCEPT !.Method = method, !.URL = url]
    ELSE IF UnmarshalAPIErrorOK(resp.body.json)
    THEN [UnmarshalAPIError(resp.body.json)
             EXCEPT !.StatusCode = resp.status, !.Method = method, !.URL = url]
    ELSE [NewAPIError(resp.status, resp.statusLine)
             EXCEPT !.Method = method, !.URL = url]

\* parseErrorResponse
parseErrorResponse(resp, method, url) ==
    IF ~resp.readOK
    THEN [NewAPIError(resp.status, Str("Failed to read error response"))
             EXCEPT !.Method = method, !.URL = url]
    ELSE IF UnmarshalAPIErrorOK(resp.body.json)
    THEN [UnmarshalAPIError(resp.body.json)
             EXCEPT !.StatusCode = resp.status, !.Method = method, !.URL = url]
    ELSE [NewAPIError(resp.status,
                      IF resp.body.raw = <<>> THEN resp.statusLine ELSE resp.body.raw)
             EXCEPT !.Method = method, !.URL = url]

---------------------------------------------------------------------------
(* internal/config: the configuration.  config holds what outlives a call:  *)
(* the config file, the CLOUD_STORAGE_API_URL variable of the environment   *)
(* and the package's viperInstance, which lives as long as the process.     *)

\* defaultAPIURL, the API URL compiled into the binary
defaultAPIURL == Str("http://localhost:8000")

\* Config
Config(apiURL, accessToken, refreshToken, apiKey) ==
    [APIURL |-> apiURL, AccessToken |-> accessToken,
     RefreshToken |-> refreshToken, APIKey |-> apiKey]

\* the config file: absent, or the four keys WriteConfigAs wrote
NoConfigFile == [exists |-> FALSE, cfg |-> Config(<<>>, <<>>, <<>>, <<>>)]

ConfigFile(cfg) == [exists |-> TRUE, cfg |-> cfg]

\* viperInstance: nil, or the file InitConfig read and the values Set since
NilViper == [init |-> FALSE, file |-> NoConfigFile, override |-> NoConfigFile]

\* InitConfig: the defaults, the environment binding and ReadInConfig
InitConfig(c) ==
    [c EXCEPT !.viper = [init |-> TRUE, file |-> c.file, override |-> NoConfigFile]]

\* viper's lookup of a key: a value Set, else the environment variable when
\* it is bound and not empty, else the config file, else the default
ViperGet(v, envValue, key, default) ==
    IF v.override.exists THEN v.override.cfg[key]
    ELSE IF envValue # <<>> THEN envValue
    ELSE IF v.file.exists THEN v.file.cfg[key]
    ELSE default

\* the configuration after a call that needs viperInstance
Initialized(c) == IF c.viper.init THEN c ELSE InitConfig(c)

\* LoadConfig: InitConfig when viperInstance is nil, Unmarshal, then the
\* default API URL for an empty one
LoadConfig(c) ==
    LET v == Initialized(c).viper
        apiURL == ViperGet(v, c.env, "APIURL", defaultAPIURL)
    IN  Config(IF apiURL = <<>> THEN defaultAPIURL ELSE apiURL,
               ViperGet(v, <<>>, "AccessToken", <<>>),
               ViperGet(v, <<>>, "RefreshToken", <<>>),
               ViperGet(v, <<>>, "APIKey", <<>>))

\* SaveConfig: the four values Set in viper and written to the config file;
\* when the directory or the file cannot be written the values stay Set
SaveConfig(c, cfg, writable) ==
    LET c1 == Initialized(c)
    IN  [c1 EXCEPT !.viper.override = ConfigFile(cfg),
                   !.file = IF writable THEN ConfigFile(cfg) ELSE @]

\* the field of Config a key names; <<>> for an unknown key
KeyField(key) ==
    IF key \in {Str("api-url"), Str("api_url")} THEN "APIURL"
    ELSE IF key \in {Str("access-token"), Str("access_token")} THEN "AccessToken"
    ELSE IF key \in {Str("refresh-token"), Str("refresh_token")} THEN "RefreshToken"
    ELSE IF key \in {Str("api-key"), Str("api_key")} THEN "APIKey"
    ELSE "unknown"

\* SetValue
SetValue(c, key, value, writable) ==
    IF KeyField(key) = "unknown"
    THEN [config |-> Initialized(c),
          err |-> GenericError(Str("unknown config key: ") \o key)]
    ELSE [config |-> SaveConfig(c, [LoadConfig(c) EXCEPT ![KeyField(key)] = value],
                                writable),
          err |-> IF writable THEN NoError
                  ELSE GenericError(Str("failed to write config file: permission denied"))]

\* GetValue
GetValue(c, key) ==
    IF KeyField(key) = "unknown"
    THEN [value |-> <<>>, err |-> GenericError(Str("unknown config key: ") \o key)]
    ELSE [value |-> LoadConfig(c)[KeyField(key)], err |-> NoError]

\* NewClient
NewClient(c) ==
    LET cfg == LoadConfig(c)
    IN  NewClientWithConfig(cfg.APIURL, cfg.AccessToken, cfg.APIKey)

---------------------------------------------------------------------------
(* The local disk: the directories and the regular files, by cleaned path *)

DirExists(disk, d) == d \in disk.dirs \cup {Str("."), Str("/")}

FileExists(disk, f) == f \in DOMAIN disk.files

\* a directory path and the directories above it
Ancestors(d) ==
    LET e == SplitSlash(d)
    IN  {JoinSlash(SubSeq(e, 1, k)) : k \in 1..Len(e)} \ {<<>>}

\* os.MkdirAll; it fails when the disk refuses or a regular file is in the way
MkdirAll(disk, d) == [disk EXCEPT !.dirs = @ \cup Ancestors(Clean(d))]

\* os.Create succeeds unless the disk refuses, the path is a directory or its
\* directory is missing
CreateOK(disk, f, faults) ==
    /\ faults.create
    /\ f # <<>>
    /\ f[Len(f)] # "/"
    /\ ~DirExists(disk, Clean(f))
    /\ DirExists(disk, Dir(f))
    /\ \A a \in Ancestors(Dir(f)) : ~FileExists(disk, a)

\* writing data to a file, created or truncated
WriteFile(disk, f, data) ==
    [disk EXCEPT !.files =
        [x \in DOMAIN disk.files \cup {Clean(f)} |->
            IF x = Clean(f) THEN data ELSE disk.files[x]]]

---------------------------------------------------------------------------
(* internal/client: the operations.  env is what the network does with the  *)
(* request: whether the exchange completes, and the response if it does.    *)

NoResp ==
    [status |-> 0, statusLine |-> <<>>, disposition |-> <<>>, body |-> [raw |-> <<>>, json |-> JInvalid],
     readOK |-> TRUE]

NoRequestBody == [kind |-> "none", fileName |-> <<>>, content |-> <<>>, fields |-> <<>>]

JSONRequestBody == [kind |-> "json", fileName |-> <<>>, content |-> <<>>, fields |-> <<>>]

\* what an operation leaves: the requests handed to HTTPClient.Do, the
\* response received, the error returned, the result decoded, for a
\* download the file name resolved, the destination and the path returned,
\* and the resources ("file", "outFile", "body") it opened and still holds open
Outcome(requests, resp, err) ==
    [requests |-> requests, resp |-> resp, err |-> err,
     decoded |-> FALSE, value |-> JInvalid,
     filename |-> <<>>, finalPath |-> <<>>, saved |-> <<>>,
     opened |-> {}, open |-> {}]

\* os.Open, os.Create, or a response received: the resources R are open
Opened(o, R) == [o EXCEPT !.opened = @ \cup R, !.open = @ \cup R]

\* the deferred Close calls of the resources R run as the function returns
Deferred(o, R) == [o EXCEPT !.open = @ \ R]

\* doRequest sending the request a second time when the exchange fails
doRequest_Retry(c, method, path, body, env) ==
    LET u   == buildURL(c, path)
        req == [method  |-> method,
                url     |-> u.url,
                headers |-> setAuthHeaders(c,
                              [n \in {"Content-Type", "Accept"} |-> Str("application/json")]),
                body    |-> IF body = "nil" THEN NoRequestBody ELSE JSONRequestBody]
    IN  IF ~u.ok THEN Outcome(<<>>, NoResp, GenericError(Str("invalid URL: parse error")))
        ELSE IF body = "unmarshalable"
        THEN Outcome(<<>>, NoResp,
                     GenericError(Str("failed to marshal request body: unsupported type")))
        ELSE IF ~env.completes
        THEN Outcome(<<req, req>>, NoResp,
                     GenericError(Str("request failed [") \o method \o Str(" ") \o u.url
                                  \o Str("]: ") \o env.cause))
        ELSE IF env.resp.status >= 400
        THEN Deferred(Opened(Outcome(<<req>>, env.resp,
                                     APIErrorValue(parseErrorResponse(env.resp, method, u.url))),
                             {"body"}),
                      {"body"})
        ELSE Opened(Outcome(<<req>>, env.resp, NoError), {"body"})

\* doRequest finding the body unserializable only after the request went out
doRequest_MarshalLate(c, method, path, body, env) ==
    LET u   == buildURL(c, path)
        req == [method  |-> method,
                url     |-> u.url,
                headers |-> setAuthHeaders(c,
                              [n \in {"Content-Type", "Accept"} |-> Str("application/json")]),
                body    |-> IF body = "nil" THEN NoRequestBody ELSE JSONRequestBody]
    IN  IF ~u.ok THEN Outcome(<<>>, NoResp, GenericError(Str("invalid URL: parse error")))
        ELSE IF body = "unmarshalable"
        THEN Outcome(<<req>>, NoResp,
                     GenericError(Str("failed to marshal request body: unsupported type")))
        ELSE IF ~env.completes
        THEN Outcome(<<req>>, NoResp,
                     GenericError(Str("request failed [") \o method \o Str(" ") \o u.url
                                  \o Str("]: ") \o env.cause))
        ELSE IF env.resp.status >= 400
        THEN Deferred(Opened(Outcome(<<req>>, env.resp,
                                     APIErrorValue(parseErrorResponse(env.resp, method, u.url))),
                             {"body"}),
                      {"body"})
        ELSE Opened(Outcome(<<req>>, env.resp, NoError), {"body"})

\* doRequest reporting an exchange that did not complete as an APIError
doRequest_TransportAsAPIError(c, method, path, body, env) ==
    LET u   == buildURL(c, path)
        req == [method  |-> method,
                url     |-> u.url,
                headers |-> setAuthHeaders(c,
                              [n \in {"Content-Type", "Accept"} |-> Str("application/json")]),
                body    |-> IF body = "nil" THEN NoRequestBody ELSE JSONRequestBody]
    IN  IF ~u.ok THEN Outcome(<<>>, NoResp, GenericError(Str("invalid URL: parse error")))
        ELSE IF body = "unmarshalable"
        THEN Outcome(<<>>, NoResp,
                     GenericError(Str("failed to marshal request body: unsupported type")))
        ELSE IF ~env.completes
        THEN Outcome(<<req>>, NoResp,
                     APIErrorValue([NewAPIError(0, env.cause)
                                       EXCEPT !.Method = method, !.URL = u.url]))
        ELSE IF env.resp.status >= 400
        THEN Deferred(Opened(Outcome(<<req>>, env.resp,
                                     APIErrorValue(parseErrorResponse(env.resp, method, u.url))),
                             {"body"}),
                      {"body"})
        ELSE Opened(Outcome(<<req>>, env.resp, NoError), {"body"})

\* doRequest
doRequest(c, method, path, body, env) ==
    LET u   == buildURL(c, path)
        req == [method  |-> method,
                url     |-> u.url,
                headers |-> setAuthHeaders(c,
                              [n \in {"Content-Type", "Accept"} |-> Str("application/json")]),
                body    |-> IF body = "nil" THEN NoRequestBody ELSE JSONRequestBody]
    IN  IF ~u.ok THEN Outcome(<<>>, NoResp, GenericError(Str("invalid URL: parse error")))
        ELSE IF body = "unmarshalable"
        THEN Outcome(<<>>, NoResp,
                     GenericError(Str("failed to marshal request body: unsupported type")))
        ELSE IF ~env.completes
        THEN Outcome(<<req>>, NoResp,
                     GenericError(Str("request failed [") \o method \o Str(" ") \o u.url
                                  \o Str("]: ") \o env.cause))
        ELSE IF env.resp.status >= 400
        THEN Deferred(Opened(Outcome(<<req>>, env.resp,
                                     APIErrorValue(parseErrorResponse(env.resp, method, u.url))),
                             {"body"}),
                      {"body"})
        ELSE Opened(Outcome(<<req>>, env.resp, NoError), {"body"})

\* DecodeResult reading and parsing the body even without a destination
DecodeResult_Always(o, result) ==
    IF ~o.resp.readOK
    THEN [o EXCEPT !.err = GenericError(Str("failed to read response body: unexpected EOF"))]
    ELSE IF o.resp.body.json.kind \notin {"object", "null"}
    THEN [o EXCEPT !.err = GenericError(Str("failed to unmarshal response: invalid JSON"))]
    ELSE IF result = "nil" THEN o
    ELSE [o EXCEPT !.decoded = TRUE, !.value = o.resp.body.json]

\* the tail of Get, Post, Put and UploadFile: the body decoded into result
DecodeResult(o, result) ==
    IF result = "nil" THEN o
    ELSE IF ~o.resp.readOK
    THEN [o EXCEPT !.err = GenericError(Str("failed to read response body: unexpected EOF"))]
    ELSE IF o.resp.body.json.kind \notin {"object", "null"}
    THEN [o EXCEPT !.err = GenericError(Str("failed to unmarshal response: invalid JSON"))]
    ELSE [o EXCEPT !.decoded = TRUE, !.value = o.resp.body.json]

\* Get
Get(c, path, result, env) ==
    LET o == doRequest(c, Str("GET"), path, "nil", env)
    IN  IF o.err.kind # "nil" THEN o ELSE Deferred(DecodeResult(o, result), {"body"})

\* Post
Post(c, path, body, result, env) ==
    LET o == doRequest(c, Str("POST"), path, body, env)
    IN  IF o.err.kind # "nil" THEN o ELSE Deferred(DecodeResult(o, result), {"body"})

\* Put
Put(c, path, body, result, env) ==
    LET o == doRequest(c, Str("PUT"), path, body, env)
    IN  IF o.err.kind # "nil" THEN o ELSE Deferred(DecodeResult(o, result), {"body"})

\* Delete returning without closing the response body
Delete_NoClose(c, path, env) == doRequest(c, Str("DELETE"), path, "nil", env)

\* Delete
Delete(c, path, env) ==
    LET o == doRequest(c, Str("DELETE"), path, "nil", env)
    IN  IF o.err.kind # "nil" THEN o ELSE Deferred(o, {"body"})

\* the folderPath field written whether or not a folder path is given
FolderField_Always(folderPath) == [n \in {"folderPath"} |-> folderPath]

\* UploadFile, the optional folderPath field of the form
FolderField(folderPath) ==
    IF folderPath # <<>> THEN [n \in {"folderPath"} |-> folderPath] ELSE <<>>

\* the filename field left out of the form
FilenameField_Never(filename) == <<>>

\* the optional filename field of the form
FilenameField(filename) ==
    IF filename # <<>> THEN [n \in {"filename"} |-> filename] ELSE <<>>

\* UploadFile, with the text fields of the form already chosen
UploadForm(c, path, filePath, fields, result, disk, env) ==
    LET u    == buildURL(c, path)
        form == [kind     |-> "multipart",
                 fileName |-> Base(filePath),
                 content  |-> IF FileExists(disk, Clean(filePath))
                              THEN disk.files[Clean(filePath)] ELSE <<>>,
                 fields   |-> fields]
        req  == [method  |-> Str("POST"),
                 url     |-> u.url,
                 headers |-> setAuthHeaders(c,
                               [n \in {"Content-Type", "Accept"} |->
                                  IF n = "Accept" THEN Str("application/json")
                                  ELSE Str("multipart/form-data; boundary=b")]),
                 body    |-> form]
    IN  IF filePath = <<>> \/ ~(FileExists(disk, Clean(filePath))
                                \/ DirExists(disk, Clean(filePath)))
        THEN Outcome(<<>>, NoResp,
                     GenericError(Str("failed to open file: no such file or directory")))
        ELSE Deferred(
            IF DirExists(disk, Clean(filePath))
            THEN Opened(Outcome(<<>>, NoResp,
                                GenericError(Str("failed to copy file content: is a directory"))),
                        {"file"})
            ELSE IF ~u.ok
            THEN Opened(Outcome(<<>>, NoResp, GenericError(Str("invalid URL: parse error"))),
                        {"file"})
            ELSE IF ~env.completes
            THEN Opened(Outcome(<<req>>, NoResp,
                                GenericError(Str("request failed [POST ") \o u.url
                                             \o Str("]: ") \o env.cause)),
                        {"file"})
            ELSE IF env.resp.status >= 400
            THEN Opened(Outcome(<<req>>, env.resp,
                                APIErrorValue(parseErrorResponse(env.resp, Str("POST"), u.url))),
                        {"file", "body"})
            ELSE DecodeResult(Opened(Outcome(<<req>>, env.resp, NoError), {"file", "body"}),
                              result),
            {"file", "body"})

\* UploadFile
UploadFile(c, path, filePath, folderPath, result, disk, env) ==
    UploadForm(c, path, filePath, FolderField(folderPath), result, disk, env)

\* UploadFile taking a filename override
UploadFileNamed(c, path, filePath, folderPath, filename, result, disk, env) ==
    UploadForm(c, path, filePath, FolderField(folderPath) @@ FilenameField(filename),
               result, disk, env)

\* StreamToFile leaving the partial file behind when the copy fails
StreamToFile_NoCleanup(resolved, disk, finalPath, env) ==
    IF ~CreateOK(disk, finalPath, env.faults)
    THEN [out  |-> [resolved EXCEPT !.err =
                      GenericError(Str("failed to create output file: open failed"))],
          disk |-> disk]
    ELSE IF ~env.resp.readOK \/ ~env.faults.write
    THEN [out  |-> Opened([resolved EXCEPT !.err =
                             GenericError(Str("failed to write file: unexpected EOF"))],
                          {"outFile"}),
          disk |-> WriteFile(disk, finalPath, <<>>)]
    ELSE [out  |-> Opened([resolved EXCEPT !.saved = finalPath], {"outFile"}),
          disk |-> WriteFile(disk, finalPath, env.resp.body.raw)]

\* DownloadFile, the body copied into the created file: os.Create, io.Copy
\* and, when the copy fails, os.Remove of the file created or truncated (the
\* disk is left without a file at finalPath)
StreamToFile(resolved, disk, finalPath, env) ==
    IF ~CreateOK(disk, finalPath, env.faults)
    THEN [out  |-> [resolved EXCEPT !.err =
                      GenericError(Str("failed to create output file: open failed"))],
          disk |-> disk]
    ELSE IF ~env.resp.readOK \/ ~env.faults.write
    THEN [out  |-> Opened([resolved EXCEPT !.err =
                             GenericError(Str("failed to write file: unexpected EOF"))],
                          {"outFile"}),
          disk |-> [disk EXCEPT !.files =
                       [x \in DOMAIN disk.files \ {Clean(finalPath)} |-> disk.files[x]]]]
    ELSE [out  |-> Opened([resolved EXCEPT !.saved = finalPath], {"outFile"}),
          disk |-> WriteFile(disk, finalPath, env.resp.body.raw)]

\* FinalPath putting the resolved filename under every non-empty output path
FinalPath_JoinAlways(disk, outputPath, filename) ==
    IF outputPath # <<>> THEN Join(outputPath, filename) ELSE filename

\* DownloadFile, the final output path: an existing directory takes the
\* filename, any other non-empty output path is used as it is
FinalPath(disk, outputPath, filename) ==
    IF outputPath # <<>> /\ DirExists(disk, Clean(outputPath))
    THEN Join(outputPath, filename)
    ELSE IF outputPath # <<>> THEN outputPath
    ELSE filename

\* DownloadFile, whether the parent directory of the output path is created
NeedsParentDir(disk, outputPath) ==
    /\ outputPath # <<>>
    /\ ~DirExists(disk, Clean(outputPath))
    /\ Dir(outputPath) # Str(".")
    /\ Dir(outputPath) # <<>>

\* DownloadFile, from the resolved filename to the saved file
SaveAs(resolved, disk, outputPath, env) ==
    IF NeedsParentDir(disk, outputPath)
    THEN IF ~env.faults.mkdir
            \/ \E a \in Ancestors(Clean(Dir(outputPath))) : FileExists(disk, a)
         THEN [out  |-> [resolved EXCEPT !.err =
                           GenericError(Str("failed to create output directory: mkdir failed"))],
               disk |-> disk]
         ELSE StreamToFile(resolved, MkdirAll(disk, Dir(outputPath)), resolved.finalPath, env)
    ELSE StreamToFile(resolved, disk, resolved.finalPath, env)

\* DownloadFile, a response below 400: the filename, the final path, the file
SaveResponse(req, filename, outputPath, disk, env) ==
    SaveAs([Opened(Outcome(<<req>>, env.resp, NoError), {"body"})
               EXCEPT !.filename = filename,
                      !.finalPath = FinalPath(disk, outputPath, filename)],
           disk, outputPath, env)

\* DownloadFile creating the parent directory of the output path before it
\* looks at the status of the response
DownloadExchange_MkdirFirst(req, path, outputPath, disk, env) ==
    IF ~env.completes
    THEN [out  |-> Outcome(<<req>>, NoResp,
                           GenericError(Str("request failed [GET ") \o req.url
                                        \o Str("]: ") \o env.cause)),
          disk |-> disk]
    ELSE IF env.resp.status >= 400
    THEN [out  |-> Opened(Outcome(<<req>>, env.resp,
                                  APIErrorValue(parseErrorResponse(env.resp, Str("GET"),
                                                                   req.url))),
                          {"body"}),
          disk |-> IF NeedsParentDir(disk, outputPath)
                   THEN MkdirAll(disk, Dir(outputPath)) ELSE disk]
    ELSE SaveResponse(req, ResolveFilename(env.resp.disposition, path), outputPath, disk, env)

\* DownloadFile, the exchange of the built request
DownloadExchange(req, path, outputPath, disk, env) ==
    IF ~env.completes
    THEN [out  |-> Outcome(<<req>>, NoResp,
                           GenericError(Str("request failed [GET ") \o req.url
                                        \o Str("]: ") \o env.cause)),
          disk |-> disk]
    ELSE IF env.resp.status >= 400
    THEN [out  |-> Opened(Outcome(<<req>>, env.resp,
                                  APIErrorValue(parseErrorResponse(env.resp, Str("GET"),
                                                                   req.url))),
                          {"body"}),
          disk |-> disk]
    ELSE SaveResponse(req, ResolveFilename(env.resp.disposition, path), outputPath, disk, env)

\* DownloadFile with the URL built
DownloadFrom(c, u, path, outputPath, disk, env) ==
    IF ~u.ok
    THEN [out  |-> Outcome(<<>>, NoResp, GenericError(Str("invalid URL: parse error"))),
          disk |-> disk]
    ELSE DownloadExchange([method  |-> Str("GET"),
                           url     |-> u.url,
                           headers |-> setAuthHeaders(c, [n \in {"Accept"} |-> Str("*/*")]),
                           body    |-> NoRequestBody],
                          path, outputPath, disk, env)

\* DownloadFile: the outcome and the disk it leaves, after the deferred
\* resp.Body.Close and outFile.Close
DownloadFile(c, path, outputPath, disk, env) ==
    LET d == DownloadFrom(c, buildURL(c, path), path, outputPath, disk, env)
    IN  [out |-> Deferred(d.out, {"body", "outFile"}), disk |-> d.disk]

---------------------------------------------------------------------------
(* cmd: the commands.  A command is one process: it runs from a nil         *)
(* viperInstance to its exit.  stdin is the text waiting on standard input. *)

\* url.QueryEscape of one byte
EscapeByte(c) ==
    LET n == CodePoint(c)
    IN  IF \/ n >= 48 /\ n <= 57
           \/ n >= 65 /\ n <= 90
           \/ n >= 97 /\ n <= 122
           \/ c \in {"-", "_", ".", "~"}
        THEN <<c>>
        ELSE IF c = " " THEN <<"+">>
        ELSE <<"%", Str("0123456789ABCDEF")[(n \div 16) + 1],
                    Str("0123456789ABCDEF")[(n % 16) + 1]>>

\* url.QueryEscape, and Encode of url.Values for the one value set
RECURSIVE QueryEscape(_)
QueryEscape(s) == IF s = <<>> THEN <<>> ELSE EscapeByte(Head(s)) \o QueryEscape(Tail(s))

\* the blanks fmt skips before and after a token: spaces that end no line
RECURSIVE SkipBlanks(_)
SkipBlanks(s) ==
    IF s # <<>> /\ IsSpace(Head(s)) /\ Head(s) # "\n" THEN SkipBlanks(Tail(s)) ELSE s

\* the token fmt reads for a string: the characters up to the next space
RECURSIVE Token(_)
Token(s) ==
    IF s = <<>> \/ IsSpace(Head(s)) THEN <<>> ELSE <<Head(s)>> \o Token(Tail(s))

\* fmt.Scanln(&response): the token stored, and whether err is nil.  An
\* empty line or the end of the input stores nothing; a second word on the
\* line is an error after the first word has been stored.
Scanln(stdin) ==
    LET s    == SkipBlanks(stdin)
        tok  == Token(s)
        rest == SkipBlanks(SubSeq(s, Len(tok) + 1, Len(s)))
    IN  IF tok = <<>> THEN [value |-> <<>>, ok |-> FALSE]
        ELSE [value |-> tok, ok |-> rest = <<>> \/ Head(rest) = "\n"]

\* the answer to the prompt as the command reads it
response(scan) == ToLower(TrimSpace(scan.value))

\* the prompt of file delete and folder delete: Scanln's error is not looked at
Confirmed(skip, stdin) == skip \/ response(Scanln(stdin)) \in {Str("y"), Str("yes")}

\* a command returning before it creates a client
Local(err) == Outcome(<<>>, NoResp, err)

\* fmt.Errorf("<prefix>: %w", err) around the error of the client, if any
Wrapped(prefix, o) ==
    IF o.err.kind = "nil" THEN o
    ELSE [o EXCEPT !.err = [kind |-> "error",
                            text |-> Str(prefix) \o Str(": ") \o o.err.text,
                            api  |-> o.err.api]]

\* folderCreateCmd
folderCreateCmd(c, path, env) ==
    IF ~HasPrefix(path, Str("/"))
    THEN Local(GenericError(Str("folder path must start with '/'")))
    ELSE Wrapped("failed to create folder",
                 Post(NewClient(c), Str("/api/folders"), "map", "map", env))

\* folderDeleteCmd
folderDeleteCmd(c, path, force, stdin, env) ==
    IF ~HasPrefix(path, Str("/"))
    THEN Local(GenericError(Str("folder path must start with '/'")))
    ELSE IF ~Confirmed(force, stdin) THEN Local(NoError)
    ELSE Wrapped("failed to delete folder",
                 Delete(NewClient(c), Str("/api/folders?path=") \o QueryEscape(path), env))

\* fileDeleteCmd
fileDeleteCmd(c, fileID, confirm, stdin, env) ==
    IF ValidateUUID(fileID).isErr THEN Local(GenericError(ValidateUUID(fileID).msg))
    ELSE IF ~Confirmed(confirm, stdin) THEN Local(NoError)
    ELSE Wrapped("delete failed",
                 Delete(NewClient(c), Str("/api/files/") \o fileID, env))

\* apikeyRevokeCmd
apikeyRevokeCmd(c, apiKeyID, force, stdin, env) ==
    IF ~uuidParse(apiKeyID)
    THEN Local(GenericError(Str("invalid API key ID format (expected UUID): ")
                            \o apiKeyID))
    ELSE IF ~force /\ ~(/\ Scanln(stdin).ok
                         /\ response(Scanln(stdin)) \in {Str("y"), Str("yes")})
    THEN Local(NoError)
    ELSE Wrapped("failed to revoke API key",
                 Delete(NewClient(c), Str("/api/auth/api-keys/") \o apiKeyID, env))

\* auth.GetStoredTokens
GetStoredTokens(c) ==
    [accessToken |-> LoadConfig(c).AccessToken, refreshToken |-> LoadConfig(c).RefreshToken]

\* auth.ClearTokens
ClearTokens(c, writable) ==
    [config |-> SaveConfig(c, [LoadConfig(c) EXCEPT !.AccessToken = <<>>,
                                                   !.RefreshToken = <<>>], writable),
     err |-> IF writable THEN NoError
             ELSE GenericError(Str("failed to clear tokens: failed to write config file: permission denied"))]

\* authLogoutCmd, the call of the logout endpoint when a refresh token is stored
LogoutExchange(c, env) ==
    IF GetStoredTokens(c).refreshToken # <<>>
    THEN Post(NewClient(c), Str("/api/auth/logout"), "map", "nil", env)
    ELSE Local(NoError)

\* authLogoutCmd giving up, tokens kept, when the logout endpoint fails
authLogoutCmd_StopOnError(c, writable, env) ==
    LET o == LogoutExchange(c, env)
    IN  IF o.err.kind # "nil"
        THEN [out |-> Wrapped("logout failed", o), config |-> Initialized(c)]
        ELSE [out |-> [o EXCEPT !.err = ClearTokens(c, writable).err],
              config |-> ClearTokens(c, writable).config]

\* authLogoutCmd: the error of the logout endpoint is a warning; the command
\* fails only when the tokens cannot be cleared
authLogoutCmd(c, writable, env) ==
    [out |-> [LogoutExchange(c, env) EXCEPT !.err = ClearTokens(c, writable).err],
     config |-> ClearTokens(c, writable).config]

\* fileDownloadCmd; the path of the request is by id for a UUID, else by path
fileDownloadCmd(c, identifier, outputPath, disk, env) ==
    LET d == DownloadFile(NewClient(c),
                          IF ~ValidateUUID(identifier).isErr
                          THEN Str("/api/files/") \o identifier \o Str("/download")
                          ELSE Str("/api/files/download-by-path?filepath=")
                                   \o QueryEscape(identifier),
                          outputPath, disk, env)
    IN  [out |-> Wrapped("download failed", d.out), disk |-> d.disk]

---------------------------------------------------------------------------
(* Inputs of the pure functions *)

\* the longest name the test generates: one first character and 50 more
MaxValidNameLen == 51

\* short names over the characters ValidateFilename looks at; names of the
\* alphabet of TestValidateFilename_PropertyBased_Valid (a lower-case letter,
\* an upper-case letter, a digit, '-', '_' and '.'): the short ones, the
\* longest, and names that begin with a reserved device name without being
\* one; and each reserved name in upper, lower and mixed case, between a
\* prefix and a suffix
FilenameInputs ==
    LET CaseVariants(r) ==
            { r,
              [i \in 1..Len(r) |-> IF CodePoint(r[i]) >= 65 /\ CodePoint(r[i]) <= 90
                                   THEN Chr(CodePoint(r[i]) + 32) ELSE r[i]],
              [i \in 1..Len(r) |-> IF i = 1 /\ CodePoint(r[i]) >= 65 /\ CodePoint(r[i]) <= 90
                                   THEN Chr(CodePoint(r[i]) + 32) ELSE r[i]] }
    IN  StringsUpTo({"/", "\\", ".", "a", NUL, "\n"}, MaxLen)
            \cup StringsUpTo({"a", "Z", "0", "-", "_", "."}, MaxLen)
            \cup { [i \in 1..MaxValidNameLen |-> "a"],
                   [i \in 1..MaxValidNameLen |-> IF i = 1 THEN "_" ELSE "."],
                   [i \in 1..(MaxValidNameLen + 1) |-> "a"],
                   Str("CONTRACT.txt"), Str("con-1.txt"), Str("COM10"), Str("nul_"),
                   Str("a.CON"), Str("-con.txt"), Str("report.final.v2.pdf") }
            \cup { p \o v \o x :
                      p \in {<<>>, Str("a"), Str("."), Str("/")},
                      v \in UNION {CaseVariants(r) : r \in ReservedNames},
                      x \in StringsUpTo({".", "1", "T"}, MaxLen - 2)
                               \cup {Str(".txt"), Str("TRACT.txt"), Str(".tar.gz"),
                                     Str("/"), Str("\\")} }

SampleUUID == Str("550e8400-e29b-41d4-a716-446655440000")

ReplaceAt(s, i, c) == [j \in 1..Len(s) |-> IF j = i THEN c ELSE s[j]]

DeleteAt(s, i) == SubSeq(s, 1, i - 1) \o SubSeq(s, i + 1, Len(s))

InsertAt(s, i, c) == SubSeq(s, 1, i - 1) \o <<c>> \o SubSeq(s, i, Len(s))

\* the sample UUID and its neighbours: one character replaced, dropped or
\* inserted, the other textual forms of a UUID, and short strings
UUIDInputs ==
    LET UUIDAlphabet == {"0", "a", "F", "g", "G", "-", " ", "\n"}
    IN
    {SampleUUID, ToUpper(SampleUUID)}
        \cup {ReplaceAt(SampleUUID, i, c) : i \in 1..36, c \in UUIDAlphabet}
        \cup {DeleteAt(SampleUUID, i) : i \in 1..36}
        \cup {InsertAt(SampleUUID, i, c) : i \in 1..37, c \in UUIDAlphabet}
        \cup { ReplaceAll(SampleUUID, Str("-"), <<>>),
               Str("{") \o SampleUUID \o Str("}"),
               Str("urn:uuid:") \o SampleUUID,
               SampleUUID \o SampleUUID }
        \cup StringsUpTo({"a", "-", "0"}, MaxLen)

\* the sample address and its neighbours: one character replaced, dropped or
\* inserted, the addresses of TestValidateEmail, and short strings
EmailInputs ==
    LET SampleEmail == Str("u@e.co")
        EmailAlphabet == {"@", ".", " ", "a", "Z", "1", "-", "+", "%", "_", "\n", "!"}
    IN
    {SampleEmail}
        \cup {ReplaceAt(SampleEmail, i, c) : i \in 1..6, c \in EmailAlphabet}
        \cup {DeleteAt(SampleEmail, i) : i \in 1..6}
        \cup {InsertAt(SampleEmail, i, c) : i \in 1..7, c \in EmailAlphabet}
        \cup { Str("user@example.com"), Str("user@mail.example.com"),
               Str("user+tag@example.com"), Str("user.name@example.com"),
               Str("userexample.com"), Str("user@"), Str("@example.com"),
               Str("user@example"), Str("user@example.c"),
               Str("user name@example.com"), Str("user@name@example.com"),
               Str("a@b..cc"), Str("a@-.cc"), Str(".@..cc"), Str("a@b.c1"),
               Str("a@b.cc\n"), Str("a@b.c.dd"), Str("a@b.cc.d") }
        \cup StringsUpTo({"a", "@", "."}, MaxLen)

---------------------------------------------------------------------------
(* The pure functions, each applied once to an input drawn at the start *)

Done(v) == [done |-> TRUE, val |-> v]

ApplyValidatePath ==
    /\ fn = "ValidatePath" /\ ~res.done
    /\ res' = Done(ValidatePath(arg))
    /\ UNCHANGED <<client, fs, call, fn, arg, config>>

ApplyValidateFilename ==
    /\ fn = "ValidateFilename" /\ ~res.done
    /\ res' = Done(ValidateFilename(arg))
    /\ UNCHANGED <<client, fs, call, fn, arg, config>>

ApplyValidateUUID ==
    /\ fn = "ValidateUUID" /\ ~res.done
    /\ res' = Done(ValidateUUID(arg))
    /\ UNCHANGED <<client, fs, call, fn, arg, config>>

ApplyValidateEmail ==
    /\ fn = "ValidateEmail" /\ ~res.done
    /\ res' = Done(ValidateEmail(arg))
    /\ UNCHANGED <<client, fs, call, fn, arg, config>>

ApplyValidatePageSize ==
    /\ fn = "ValidatePageSize" /\ ~res.done
    /\ res' = Done(ValidatePageSize(arg))
    /\ UNCHANGED <<client, fs, call, fn, arg, config>>

ApplyError ==
    /\ fn = "Error" /\ ~res.done
    /\ res' = Done(Error(arg))
    /\ UNCHANGED <<client, fs, call, fn, arg, config>>

---------------------------------------------------------------------------
(* Inputs of the transport operations *)

RequestPaths == {Str("/api/test"), Str("api/test"), Str("/bad\tpath")}

ResultDests == {"nil", "map"}

Body(raw, json) == [raw |-> Str(raw), json |-> json]

\* statusLine is resp.Status: the status line as the server sent it
Response(code, disposition, body, readOK) ==
    [status |-> code,
     statusLine |-> CASE code = 200 -> Str("200 OK")
                      [] code = 201 -> Str("201 Created")
                      [] code = 204 -> Str("204 No Content")
                      [] code = 400 -> Str("400 Bad Request")
                      [] code = 404 -> Str("404 Not Found")
                      [] code = 500 -> Str("500 Internal Server Error"),
     disposition |-> disposition, body |-> body, readOK |-> readOK]

\* the responses with status >= 400; one of each status whose body cannot be read
ErrorResponses ==
    LET ErrorBodies ==
            { Body("", JInvalid),
              Body("Internal Server Error", JInvalid),
              Body("{\"message\":\"File not found\"}",
                   JObject([k \in {"message"} |-> JString("File not found")])),
              Body("{\"message\":\"Validation failed\",\"details\":\"Invalid input\"}",
                   JObject([k \in {"message", "details"} |->
                               IF k = "message" THEN JString("Validation failed")
                               ELSE JString("Invalid input")])),
              Body("{\"statusCode\":418,\"message\":\"teapot\",\"method\":\"PUT\",\"url\":\"http://evil/x\"}",
                   JObject([k \in {"statusCode", "message", "method", "url"} |->
                               CASE k = "statusCode" -> [t |-> "number", s |-> <<>>, n |-> 418]
                                 [] k = "message" -> JString("teapot")
                                 [] k = "method" -> JString("PUT")
                                 [] k = "url" -> JString("http://evil/x")])),
              Body("{\"statusCode\":\"404\",\"message\":\"nope\"}",
                   JObject([k \in {"statusCode", "message"} |->
                               IF k = "statusCode" THEN JString("404") ELSE JString("nope")])),
              Body("{\"message\":5}", JObject([k \in {"message"} |-> [t |-> "number", s |-> <<>>, n |-> 5]])),
              Body("{\"message\":null,\"details\":\"d\"}",
                   JObject([k \in {"message", "details"} |->
                               IF k = "message" THEN [t |-> "null", s |-> <<>>, n |-> 0]
                               ELSE JString("d")])),
              Body("{\"error\":\"x\"}", JObject([k \in {"error"} |-> JString("x")])),
              Body("{}", JObject(<<>>)),
              Body("null", JOther("null")),
              Body("[]", JOther("array")),
              Body("\"oops\"", JOther("string")) }
    IN
    {Response(c, <<>>, b, TRUE) : c \in {400, 404, 500}, b \in ErrorBodies}
        \cup {Response(c, <<>>, Body("{\"message\":\"cut", JInvalid), FALSE) :
                 c \in {400, 404, 500}}

NoFaults == [mkdir |-> TRUE, create |-> TRUE, write |-> TRUE]

NoAnswer ==
    [completes |-> FALSE, cause |-> Str("connection refused"), resp |-> NoResp,
     faults |-> NoFaults]

Answer(r, faults) == [completes |-> TRUE, cause |-> <<>>, resp |-> r, faults |-> faults]

\* what the network may do with a JSON request or an upload: no answer, an
\* exchange that outlasts the client's timeout, a response with status >= 400,
\* or a success response (one of them with a body that cannot be read)
Servers ==
    { NoAnswer, [NoAnswer EXCEPT !.cause = Str("context deadline exceeded")] }
        \cup {Answer(r, NoFaults) : r \in ErrorResponses}
        \cup {Answer(Response(c, <<>>, b, TRUE), NoFaults) :
                 c \in {200, 201, 204},
                 b \in { Body("{\"id\":\"123\"}", JObject([k \in {"id"} |-> JString("123")])),
                         Body("not json", JInvalid),
                         Body("[1]", JOther("array")),
                         Body("", JInvalid) }}
        \cup {Answer(Response(200, <<>>, Body("{\"id\":", JInvalid), FALSE), NoFaults)}

\* what the network and the disk may do during a download: no answer, a
\* timeout, a response with status >= 400, a file with each Content-Disposition
\* value (<<>> when there is none), a body that breaks off, and a disk that
\* fails at MkdirAll, at Create or at Copy
DownloadServers ==
    { NoAnswer, [NoAnswer EXCEPT !.cause = Str("context deadline exceeded")] }
        \cup {Answer(r, NoFaults) : r \in ErrorResponses}
        \cup {Answer(Response(200, d, Body("file data", JInvalid), TRUE), NoFaults) :
                 d \in { <<>>,
                         Str("inline"),
                         Str("attachment; filename=\"test.txt\""),
                         Str("attachment; filename=test.txt; size=3"),
                         Str("attachment; filename*=UTF-8''x.txt"),
                         Str("attachment; filename=\"../../etc/passwd\""),
                         Str("attachment; filename=\"..\""),
                         Str("attachment; filename=\" \""),
                         Str("attachment; filename=a/b\\c") }}
        \cup {Answer(Response(200, Str("attachment; filename=\"test.txt\""),
                              Body("file", JInvalid), FALSE), NoFaults)}
        \cup {Answer(Response(200, <<>>, Body("file data", JInvalid), TRUE), f) :
                 f \in { NoFaults, [NoFaults EXCEPT !.mkdir = FALSE],
                         [NoFaults EXCEPT !.create = FALSE],
                         [NoFaults EXCEPT !.write = FALSE] }}

\* the disk an operation finds: two directories and two files
Disk0 ==
    [dirs  |-> {Str("out"), Str("docs")},
     files |-> [f \in {Str("out/existing.txt"), Str("docs/report.pdf")} |->
                   IF f = Str("out/existing.txt") THEN Str("old") ELSE Str("%PDF")]]

---------------------------------------------------------------------------
(* The transport operations as actions.  The client is used synchronously:  *)
(* an operation starts when the caller holds no result (call.op = "none")   *)
(* and leaves its outcome in call, which Return hands to the caller.  The   *)
(* disk belongs to the environment: between two operations it is in one of  *)
(* the state Disk0.                                                         *)

\* the other arguments of an operation: the request body and the result
\* destination, and for an upload the local file, the folder and the filename
Args(body, result, filePath, folderPath, filename) ==
    [body |-> body, result |-> result, filePath |-> filePath,
     folderPath |-> folderPath, filename |-> filename]

\* what a call of the config package or a command was given and what it
\* handed back besides its error: the argument (a key, an identifier, a
\* folder path), the value to set, the flag that skips the prompt, the
\* standard input, the value returned and the configuration loaded
Cli(arg0, value, skip, stdin, out, cfg) ==
    [arg |-> arg0, value |-> value, skip |-> skip, stdin |-> stdin,
     out |-> out, cfg |-> cfg]

NoCli == Cli(<<>>, <<>>, FALSE, <<>>, <<>>, Config(<<>>, <<>>, <<>>, <<>>))

MkCall(op, path, outputPath, disk, o) ==
    [op |-> op, path |-> path, outputPath |-> outputPath, disk |-> disk,
     requests |-> o.requests, resp |-> o.resp, err |-> o.err,
     decoded |-> o.decoded, value |-> o.value,
     filename |-> o.filename, finalPath |-> o.finalPath, saved |-> o.saved,
     opened |-> o.opened, open |-> o.open, args |-> Args("nil", "nil", <<>>, <<>>, <<>>), cli |-> NoCli]

\* the call with the arguments it was given besides path and outputPath
WithArgs(c, args) == [c EXCEPT !.args = args]

WithCli(c, cli) == [c EXCEPT !.cli = cli]

NoCall == MkCall("none", <<>>, <<>>, Disk0, Outcome(<<>>, NoResp, NoError))

UpdateAuthCall ==
    \E accessToken \in {<<>>, Str("tok")}, apiKey \in {<<>>, Str("key")} :
        /\ call.op = "none"
        /\ client' = UpdateAuth(client, accessToken, apiKey)
        /\ UNCHANGED <<fs, call, fn, arg, res, config>>

GetCall ==
    \E path \in RequestPaths, result \in ResultDests, env \in Servers :
        /\ call.op = "none"
        /\ call' = WithArgs(MkCall("Get", path, <<>>, fs, Get(client, path, result, env)),
                            Args("nil", result, <<>>, <<>>, <<>>))
        /\ UNCHANGED <<client, fs, fn, arg, res, config>>

PostCall ==
    \E path \in RequestPaths, body \in {"nil", "map", "unmarshalable"}, result \in ResultDests,
       env \in Servers :
        /\ call.op = "none"
        /\ call' = WithArgs(MkCall("Post", path, <<>>, fs,
                                   Post(client, path, body, result, env)),
                            Args(body, result, <<>>, <<>>, <<>>))
        /\ UNCHANGED <<client, fs, fn, arg, res, config>>

PutCall ==
    \E path \in RequestPaths, body \in {"nil", "map", "unmarshalable"}, result \in ResultDests,
       env \in Servers :
        /\ call.op = "none"
        /\ call' = WithArgs(MkCall("Put", path, <<>>, fs,
                                   Put(client, path, body, result, env)),
                            Args(body, result, <<>>, <<>>, <<>>))
        /\ UNCHANGED <<client, fs, fn, arg, res, config>>

DeleteCall ==
    \E path \in RequestPaths, env \in Servers :
        /\ call.op = "none"
        /\ call' = MkCall("Delete", path, <<>>, fs, Delete(client, path, env))
        /\ UNCHANGED <<client, fs, fn, arg, res, config>>

UploadFileCall ==
    \E path \in {Str("/api/files/upload"), Str("/bad\tpath")},
       filePath \in {Str("docs/report.pdf"), Str("missing.txt"), Str("docs"), <<>>},
       folderPath \in {<<>>, Str("/docs")},
       result \in ResultDests, env \in Servers :
        /\ call.op = "none"
        /\ call' = WithArgs(MkCall("UploadFile", path, <<>>, fs,
                                   UploadFile(client, path, filePath, folderPath, result,
                                              fs, env)),
                            Args("nil", result, filePath, folderPath, <<>>))
        /\ UNCHANGED <<client, fs, fn, arg, res, config>>

\* UploadFile with the filename override
UploadFileNamedCall ==
    \E path \in {Str("/api/files/upload"), Str("/bad\tpath")},
       filePath \in {Str("docs/report.pdf"), Str("missing.txt"), Str("docs"), <<>>},
       folderPath \in {<<>>, Str("/docs")},
       filename \in {<<>>, Str("custom.txt")}, result \in ResultDests, env \in Servers :
        /\ call.op = "none"
        /\ call' = WithArgs(MkCall("UploadFile", path, <<>>, fs,
                                   UploadFileNamed(client, path, filePath, folderPath,
                                                   filename, result, fs, env)),
                            Args("nil", result, filePath, folderPath, filename))
        /\ UNCHANGED <<client, fs, fn, arg, res, config>>

DownloadFileCall ==
    \E path \in { Str("/api/files/123/download"), Str("/api/files/123"),
                   Str("/api/files/123/"), Str("api/files/9/download"),
                   Str("/api/files/.."), Str("/api/files/."), Str("/api/files/a\\b"),
                   Str("download"), Str("/bad\tpath") },
       outputPath \in { <<>>, Str("out"), Str("out/"), Str("."), Str("f.bin"),
                         Str("new/dir/f.bin"), Str("out/existing.txt"),
                         Str("out/existing.txt/f.bin") },
       env \in DownloadServers :
        LET d == DownloadFile(client, path, outputPath, fs, env)
        IN  /\ call.op = "none"
            /\ call' = MkCall("DownloadFile", path, outputPath, fs, d.out)
            /\ fs' = d.disk
            /\ UNCHANGED <<client, fn, arg, res, config>>

\* the caller takes the outcome; the next operation finds the disk Disk0
Return ==
    /\ call.op # "none"
    /\ call' = NoCall
    /\ fs' = Disk0
    /\ UNCHANGED <<client, fn, arg, res, config>>

\* a client constructed without credentials; UpdateAuth installs them
Init ==
    /\ client \in {NewClientWithConfig(b, <<>>, <<>>) : b \in {Str("http://host"), Str("http://host/"), Str("http://host//")}}
    /\ fs = Disk0
    /\ call = NoCall
    /\ fn = "none" /\ arg = <<>> /\ res = [done |-> FALSE, val |-> Nil]
    /\ config = [file |-> NoConfigFile, env |-> <<>>, viper |-> NilViper]

Next ==
    \/ UpdateAuthCall
    \/ GetCall
    \/ PostCall
    \/ PutCall
    \/ DeleteCall
    \/ UploadFileCall
    \/ UploadFileNamedCall
    \/ DownloadFileCall
    \/ Return

Spec == Init /\ [][Next]_vars

---------------------------------------------------------------------------
(* The config package and the commands as a specification of their own.    *)
(* A process calls the config package any number of times; Exit ends the   *)
(* process and with it viperInstance.                                       *)

\* the config call that left nothing but its error, its value or its config
ConfigCall(op, cli, err) ==
    WithCli(MkCall(op, <<>>, <<>>, Disk0, Outcome(<<>>, NoResp, err)), cli)

SetValueCall ==
    \E kv \in { <<Str("api-url"), Str("http://new.example.com")>>,
                 <<Str("api_url"), Str("http://new.example.com")>>,
                 <<Str("api-key"), Str("new-key")>>,
                 <<Str("access_token"), Str("tok")>>,
                 <<Str("refresh-token"), Str("ref")>>,
                 <<Str("invalid-key"), Str("value")>> },
       writable \in BOOLEAN :
        LET r == SetValue(config, kv[1], kv[2], writable)
        IN  /\ call.op = "none"
            /\ config' = r.config
            /\ call' = ConfigCall("SetValue",
                                  Cli(kv[1], kv[2], FALSE, <<>>, <<>>, NoCli.cfg), r.err)
            /\ UNCHANGED <<client, fs, fn, arg, res>>

GetValueCall ==
    \E key \in {Str("api-url"), Str("api_url"), Str("api-key"), Str("invalid-key")} :
        LET r == GetValue(config, key)
        IN  /\ call.op = "none"
            /\ config' = Initialized(config)
            /\ call' = ConfigCall("GetValue",
                                  Cli(key, <<>>, FALSE, <<>>, r.value, NoCli.cfg), r.err)
            /\ UNCHANGED <<client, fs, fn, arg, res>>

LoadConfigCall ==
    /\ call.op = "none"
    /\ config' = Initialized(config)
    /\ call' = ConfigCall("LoadConfig",
                          Cli(<<>>, <<>>, FALSE, <<>>, <<>>, LoadConfig(config)), NoError)
    /\ UNCHANGED <<client, fs, fn, arg, res>>

\* the process ends; the next one starts with viperInstance nil
Exit ==
    /\ call.op = "none"
    /\ config.viper.init
    /\ config' = [config EXCEPT !.viper = NilViper]
    /\ UNCHANGED <<client, fs, call, fn, arg, res>>

\* what waits on standard input when a prompt is shown
Stdins ==
    { Str("y\n"), Str("yes\n"), Str("Y\n"), Str("YES\n"), Str("n\n"), Str("no\n"),
      Str("\n"), <<>>, Str("y"), Str(" y \n"), Str("yes please\n"), Str("y n\n"),
      Str("n y\n"), Str("yess\n") }

\* what the network may do with the request of a command
CommandServers ==
    { NoAnswer,
      Answer(Response(204, <<>>, Body("", JInvalid), TRUE), NoFaults),
      Answer(Response(200, <<>>, Body("{\"id\":\"123\"}",
                                      JObject([k \in {"id"} |-> JString("123")])), TRUE),
             NoFaults),
      Answer(Response(404, <<>>, Body("{\"message\":\"File not found\"}",
                                      JObject([k \in {"message"} |-> JString("File not found")])),
                      TRUE), NoFaults) }

\* the process of a command: it starts with viperInstance nil and exits
CommandCall(op, cli, o) ==
    /\ call.op = "none"
    /\ ~config.viper.init
    /\ call' = WithCli(MkCall(op, <<>>, <<>>, fs, o), cli)
    /\ UNCHANGED <<client, fn, arg, res, config>>

FolderCreateCall ==
    \E path \in {Str("/docs"), Str("docs"), Str("/a/../b"), Str("/a\\b"), Str("/my docs")},
       env \in CommandServers :
        /\ CommandCall("folder create", Cli(path, <<>>, FALSE, <<>>, <<>>, NoCli.cfg),
                       folderCreateCmd(config, path, env))
        /\ UNCHANGED fs

FolderDeleteCall ==
    \E path \in {Str("/docs"), Str("docs"), Str("/a/../b"), Str("/a\\b"), Str("/my docs")},
       force \in BOOLEAN, stdin \in Stdins, env \in CommandServers :
        /\ CommandCall("folder delete", Cli(path, <<>>, force, stdin, <<>>, NoCli.cfg),
                       folderDeleteCmd(config, path, force, stdin, env))
        /\ UNCHANGED fs

FileDeleteCall ==
    \E fileID \in { SampleUUID, ToUpper(SampleUUID),
                     Str("{") \o SampleUUID \o Str("}"), Str("not-a-uuid"), <<>> },
       confirm \in BOOLEAN, stdin \in Stdins, env \in CommandServers :
        /\ CommandCall("file delete", Cli(fileID, <<>>, confirm, stdin, <<>>, NoCli.cfg),
                       fileDeleteCmd(config, fileID, confirm, stdin, env))
        /\ UNCHANGED fs

ApikeyRevokeCall ==
    \E apiKeyID \in { SampleUUID, ToUpper(SampleUUID),
                       Str("{") \o SampleUUID \o Str("}"), Str("not-a-uuid"), <<>> },
       force \in BOOLEAN, stdin \in Stdins, env \in CommandServers :
        /\ CommandCall("apikey revoke", Cli(apiKeyID, <<>>, force, stdin, <<>>, NoCli.cfg),
                       apikeyRevokeCmd(config, apiKeyID, force, stdin, env))
        /\ UNCHANGED fs

FileDownloadCall ==
    \E identifier \in {SampleUUID, Str("/photos/2024/image.jpg"), Str("document.pdf")},
       outputPath \in {<<>>, Str("out")},
       env \in { NoAnswer,
                 Answer(Response(200, Str("attachment; filename=\"test.txt\""),
                                 Body("file data", JInvalid), TRUE), NoFaults),
                 Answer(Response(404, <<>>,
                                 Body("{\"message\":\"File not found\"}",
                                      JObject([k \in {"message"} |->
                                                  JString("File not found")])),
                                 TRUE), NoFaults) } :
        LET d == fileDownloadCmd(config, identifier, outputPath, fs, env)
        IN  /\ CommandCall("file download",
                           Cli(identifier, outputPath, FALSE, <<>>, <<>>, NoCli.cfg), d.out)
            /\ fs' = d.disk

\* auth logout; cli.cfg keeps the configuration the command found
AuthLogoutCall ==
    \E writable \in BOOLEAN, env \in CommandServers :
        LET r == authLogoutCmd(config, writable, env)
        IN  /\ call.op = "none"
            /\ ~config.viper.init
            /\ call' = WithCli(MkCall("auth logout", <<>>, <<>>, fs, r.out),
                               Cli(<<>>, <<>>, FALSE, <<>>, <<>>, LoadConfig(config)))
            /\ config' = [r.config EXCEPT !.viper = NilViper]
            /\ UNCHANGED <<client, fs, fn, arg, res>>

\* the config file a process may find, and CLOUD_STORAGE_API_URL unset or set
CLIInit ==
    /\ client = NewClientWithConfig(defaultAPIURL, <<>>, <<>>)
    /\ fs = Disk0
    /\ call = NoCall
    /\ fn = "none" /\ arg = <<>> /\ res = [done |-> FALSE, val |-> Nil]
    /\ config \in {[file |-> f, env |-> e, viper |-> NilViper] :
                      f \in { NoConfigFile,
                              ConfigFile(Config(Str("http://file.example.com"),
                                                Str("tok"), Str("ref"), <<>>)) },
                      e \in {<<>>, Str("http://env.example.com")}}

CLINext ==
    \/ SetValueCall
    \/ GetValueCall
    \/ LoadConfigCall
    \/ Exit
    \/ FolderCreateCall
    \/ FolderDeleteCall
    \/ FileDeleteCall
    \/ ApikeyRevokeCall
    \/ FileDownloadCall
    \/ AuthLogoutCall
    \/ Return

SpecCLI == CLIInit /\ [][CLINext]_vars

---------------------------------------------------------------------------
(* The pure functions as a specification of their own *)

PureInit ==
    /\ client = NewClientWithConfig(Str("http://host"), <<>>, <<>>)
    /\ fs = Disk0
    /\ call = NoCall
    /\ config = [file |-> NoConfigFile, env |-> <<>>, viper |-> NilViper]
    /\ res = [done |-> FALSE, val |-> Nil]
    /\ \/ fn = "ValidatePath" /\ arg \in StringsUpTo({"/", ".", "\\", NUL, "\t", "a"}, MaxLen)
       \/ fn = "ValidateFilename" /\ arg \in FilenameInputs
       \/ fn = "ValidateUUID" /\ arg \in UUIDInputs
       \/ fn = "ValidateEmail" /\ arg \in EmailInputs
       \/ fn = "ValidatePageSize" /\ arg \in (-3..(MaxPageSize + 3)) \cup {-2147483647, 1000, 2147483647}
       \/ fn = "Error" /\ arg \in [StatusCode : {0, 400, 404, 500},
                                    Message : {<<>>, Str("File not found"), Str("x")},
                                    Details : {<<>>, Str("Invalid input")},
                                    Method : {<<>>, Str("GET"), Str("POST")},
                                    URL : {<<>>, Str("http://host/api/files/123")}]

PureNext ==
    \/ ApplyValidatePath
    \/ ApplyValidateFilename
    \/ ApplyValidateUUID
    \/ ApplyValidateEmail
    \/ ApplyValidatePageSize
    \/ ApplyError

SpecPure == PureInit /\ [][PureNext]_vars

---------------------------------------------------------------------------
(* Claims about the validation layer *)

\* the characterisation of an accepted path, character by character
PathAcceptable(s) ==
    /\ s # <<>>
    /\ s[1] = "/"
    /\ \A i \in 1..(Len(s) - 1) : ~(s[i] = "." /\ s[i + 1] = ".")
    /\ \A i \in 1..Len(s) : s[i] # "\\" /\ s[i] # NUL /\ CodePoint(s[i]) >= 32

\* C6: ValidatePath(s) succeeds exactly when s is non-empty, starts with '/',
\* holds no "..", no backslash, no NUL byte and no character below 32; no
\* string containing ".." passes.
C6_ValidatePathExact ==
    (fn = "ValidatePath" /\ res.done) =>
        /\ (res.val = Nil) <=> PathAcceptable(arg)
        /\ Contains(arg, Str("..")) => res.val.isErr

\* a path with ".." embedded in a component is rejected, and a plain path passes
C6_Witness ==
    /\ fn = "ValidatePath" /\ res.done
    /\ arg = Str("/a..") /\ res.val = Errorf(Str("path cannot contain '..'"))

\* C7: ValidateFilename fails for every string that contains '/' or '\',
\* strings made only of separators included.
C7_SeparatorsRejected ==
    (fn = "ValidateFilename" /\ res.done
        /\ (Contains(arg, Str("/")) \/ Contains(arg, Str("\\")))) => res.val.isErr

\* the text before the first '.' of s
Stem(s) ==
    IF \E i \in 1..Len(s) : s[i] = "."
    THEN SubSeq(s, 1, (CHOOSE i \in 1..Len(s) :
                          s[i] = "." /\ \A j \in 1..(i - 1) : s[j] # ".") - 1)
    ELSE s

\* s is a reserved device name, alone or followed by '.', whatever its case
IsReservedName(s) == ToLower(Stem(s)) \in {ToLower(r) : r \in ReservedNames}

ReservedMessage == Str("filename cannot be a reserved name: ")

\* the groups of s between hyphens
RECURSIVE SplitHyphen(_)
SplitHyphen(s) ==
    IF \E i \in 1..Len(s) : s[i] = "-"
    THEN LET i == CHOOSE k \in 1..Len(s) : s[k] = "-" /\ \A j \in 1..(k - 1) : s[j] # "-"
         IN  <<SubSeq(s, 1, i - 1)>> \o SplitHyphen(SubSeq(s, i + 1, Len(s)))
    ELSE <<s>>

HexLower == {"0", "1", "2", "3", "4", "5", "6", "7", "8", "9", "a", "b", "c", "d", "e", "f"}

\* the canonical 8-4-4-4-12 shape, case-insensitively
CanonicalUUID(s) ==
    LET g == SplitHyphen(s)
    IN  /\ Len(g) = 5
        /\ <<Len(g[1]), Len(g[2]), Len(g[3]), Len(g[4]), Len(g[5])>> = <<8, 4, 4, 4, 12>>
        /\ \A k \in 1..5 : \A i \in 1..Len(g[k]) : ToLower(g[k])[i] \in HexLower

\* C8: ValidateUUID(s) succeeds exactly when s has the 8-4-4-4-12 hexadecimal
\* shape, case-insensitively; the strict parse rejects no string the pattern
\* matches; the empty string, a string of another length than 36 and a string
\* without hyphens all fail.
C8_ValidateUUIDExact ==
    (fn = "ValidateUUID" /\ res.done) =>
        /\ (res.val = Nil) <=> CanonicalUUID(arg)
        /\ uuidRegexMatch(arg) => uuidParse(arg)
        /\ (arg = <<>> \/ Len(arg) # 36 \/ ~Contains(arg, Str("-"))) => res.val.isErr

\* an upper-case UUID is accepted
C8_Witness ==
    /\ fn = "ValidateUUID" /\ res.done
    /\ arg = ToUpper(SampleUUID) /\ res.val = Nil

\* C9: ValidateFilename fails for every name that is, whatever its case, a
\* reserved device name or one followed by '.'; the reserved-name rule rejects
\* nothing else, so CONTRACT.txt succeeds.
C9_ReservedNames ==
    (fn = "ValidateFilename" /\ res.done) =>
        /\ IsReservedName(arg) => res.val.isErr
        /\ HasPrefix(res.val.msg, ReservedMessage) => IsReservedName(arg)
        /\ arg = Str("CONTRACT.txt") => res.val = Nil

\* con.txt is rejected by the reserved-name rule
C9_Witness ==
    /\ fn = "ValidateFilename" /\ res.done
    /\ arg = Str("con.txt") /\ res.val = Errorf(ReservedMessage \o Str("CON"))

---------------------------------------------------------------------------
(* Claims about the transport layer *)

\* the method each operation sends
OpMethod(op) ==
    CASE op = "Get" -> Str("GET")
      [] op = "Post" -> Str("POST")
      [] op = "Put" -> Str("PUT")
      [] op = "Delete" -> Str("DELETE")
      [] op = "UploadFile" -> Str("POST")
      [] op = "DownloadFile" -> Str("GET")

\* the operation's exchange completed with a response of status >= 400
ErrorStatusReceived == call.op # "none" /\ call.resp.status >= 400

\* the body the overlay is about: it names a status, a method and a URL itself
OverlayBody ==
    Str("{\"statusCode\":418,\"message\":\"teapot\",\"method\":\"PUT\",\"url\":\"http://evil/x\"}")

\* C1: whenever Get, Post, Put, Delete, UploadFile or DownloadFile completes
\* its exchange with a status >= 400, it returns an APIError whose StatusCode
\* is the HTTP status, whose Method is the request method and whose URL is the
\* URL the request was sent to, whatever the error body says of them.
C1_ErrorStatusIsAPIError ==
    ErrorStatusReceived =>
        /\ call.err.kind = "APIError"
        /\ call.saved = <<>> /\ ~call.decoded
        /\ call.err.api.StatusCode = call.resp.status
        /\ call.err.api.Method = OpMethod(call.op)
        /\ Len(call.requests) = 1
        /\ call.err.api.URL = call.requests[1].url
        /\ call.err.api.URL = TrimSuffix(client.BaseURL, Str("/")) \o
                                 (IF call.path[1] = "/" THEN call.path
                                  ELSE Str("/") \o call.path)

\* an upload answered 404 with a body that names status 418, PUT and another URL
C1_Witness ==
    /\ call.op = "UploadFile"
    /\ call.resp.status = 404
    /\ call.resp.body.raw = OverlayBody
    /\ call.err.kind = "APIError"
    /\ call.err.api.StatusCode = 404
    /\ call.err.api.Method = Str("POST")
    /\ call.err.api.Message = Str("teapot")

\* C3: every request an operation sends carries the one credential header the
\* client's current credentials select: X-API-Key alone when the API key is
\* set, Authorization: Bearer <token> alone when only the token is set, and
\* neither when both are empty.
C3_OneCredentialHeader ==
    \A i \in 1..Len(call.requests) :
        LET h == call.requests[i].headers
        IN  /\ client.APIKey # <<>> =>
                /\ "X-API-Key" \in DOMAIN h
                /\ h["X-API-Key"] = client.APIKey
                /\ "Authorization" \notin DOMAIN h
            /\ client.APIKey = <<>> /\ client.AccessToken # <<>> =>
                /\ "Authorization" \in DOMAIN h
                /\ h["Authorization"] = Str("Bearer ") \o client.AccessToken
                /\ "X-API-Key" \notin DOMAIN h
            /\ client.APIKey = <<>> /\ client.AccessToken = <<>> =>
                /\ "Authorization" \notin DOMAIN h
                /\ "X-API-Key" \notin DOMAIN h

\* a request sent after UpdateAuth installed both a token and an API key
C3_Witness ==
    /\ client.APIKey = Str("key")
    /\ client.AccessToken = Str("tok")
    /\ call.op = "DownloadFile"
    /\ Len(call.requests) = 1
    /\ call.requests[1].headers["X-API-Key"] = Str("key")

\* a download that resolved its destination inside an existing directory
ResolvedIntoDirectory ==
    /\ call.op = "DownloadFile"
    /\ call.finalPath # <<>>
    /\ call.outputPath # <<>>
    /\ DirExists(call.disk, Clean(call.outputPath))

\* C4: when the output path names an existing directory, the destination
\* DownloadFile resolves is a direct child of it: the resolved filename is not
\* empty, holds no '/' and no '\', and is neither "." nor "..".
C4_DownloadStaysInDirectory ==
    ResolvedIntoDirectory =>
        /\ call.filename # <<>>
        /\ ~Contains(call.filename, Str("/"))
        /\ ~Contains(call.filename, Str("\\"))
        /\ call.filename # Str(".")
        /\ call.filename # Str("..")
        /\ Dir(call.finalPath) = Clean(call.outputPath)

PasswdDisposition == Str("attachment; filename=\"../../etc/passwd\"")

\* a download answered with the Content-Disposition of the example
PasswdDownload ==
    /\ call.op = "DownloadFile"
    /\ call.finalPath # <<>>
    /\ call.resp.disposition = PasswdDisposition

\* C5 as the specification states it: the file is saved under the name passwd
C5_SavedAsPasswd ==
    PasswdDownload => call.filename = Str("passwd")

\* C5: a download answered with Content-Disposition
\* attachment; filename="../../etc/passwd" is saved under ____etc_passwd: each
\* separator and each ".." of the header's name is replaced by "_" before the
\* basename is taken, so the name keeps no separator and no traversal component.
C5_SavedUnderscored ==
    PasswdDownload =>
        /\ call.filename = Str("____etc_passwd")
        /\ ~Contains(call.filename, Str("/"))
        /\ ~Contains(call.filename, Str(".."))
        /\ call.outputPath = <<>> => call.finalPath = call.filename
        /\ ResolvedIntoDirectory =>
              /\ Base(call.finalPath) = call.filename
              /\ Dir(call.finalPath) = Clean(call.outputPath)
        /\ call.saved # <<>> => call.saved = call.finalPath
                                 /\ FileExists(fs, Clean(call.saved))

\* the example's download written into the existing directory out
C5_Witness ==
    /\ PasswdDownload
    /\ call.outputPath = Str("out")
    /\ call.saved = Str("out/____etc_passwd")
    /\ FileExists(fs, Str("out/____etc_passwd"))

\* the text of member k of a JSON object, "" when it has none
MemberText(j, k) ==
    IF k \in DOMAIN j.fields /\ j.fields[k].t = "string" THEN j.fields[k].s ELSE <<>>

\* an object whose known members all have the type of their APIError field
\* (or are null)
WellTypedErrorObject(j) ==
    /\ j.kind = "object"
    /\ \A k \in DOMAIN j.fields \cap {"message", "details", "method", "url"} :
          j.fields[k].t \in {"string", "null"}
    /\ "statusCode" \in DOMAIN j.fields => j.fields["statusCode"].t \in {"number", "null"}

---------------------------------------------------------------------------
(* Claims about APIError *)

\* C2: for an APIError with non-empty method, URL and message, Error() is
\* "API error (<code>) [<method> <url>]: <message>" when details are empty,
\* and that text followed by " - <details>" when they are not.
C2_ErrorRendering ==
    fn = "Error" /\ res.done /\ arg.Method # <<>> /\ arg.URL # <<>> /\ arg.Message # <<>> =>
        LET text == Str("API error (") \o Itoa(arg.StatusCode) \o Str(") [") \o arg.Method
                        \o Str(" ") \o arg.URL \o Str("]: ") \o arg.Message
        IN  res.val = IF arg.Details = <<>> THEN text
                      ELSE text \o Str(" - ") \o arg.Details

---------------------------------------------------------------------------
(* Claims about request URLs *)

\* b without its last character when that is a slash
OneSlashStripped(b) ==
    IF b # <<>> /\ b[Len(b)] = "/" THEN SubSeq(b, 1, Len(b) - 1) ELSE b

\* b without any of its trailing slashes
RECURSIVE AllSlashesStripped(_)
AllSlashesStripped(b) ==
    IF b # <<>> /\ b[Len(b)] = "/" THEN AllSlashesStripped(SubSeq(b, 1, Len(b) - 1)) ELSE b

\* p with a leading slash, added only when it has none
WithLeadingSlash(p) == IF p # <<>> /\ p[1] = "/" THEN p ELSE <<"/">> \o p

\* C11 as the specification states it: the URL requested is the base URL with
\* every trailing '/' stripped, so that the base part never ends in '/',
\* followed by the path with a leading '/' added only when it lacks one.
C11_BaseNeverEndsInSlash ==
    \A i \in 1..Len(call.requests) :
        call.requests[i].url =
            AllSlashesStripped(client.BaseURL) \o WithLeadingSlash(call.path)

\* C11: the URL an operation requests is the base URL without its last
\* character when that is a '/' (one slash is stripped, not several),
\* followed by the path, which is given a leading '/' only when it lacks one.
C11_URLBuilt ==
    \A i \in 1..Len(call.requests) :
        call.requests[i].url =
            OneSlashStripped(client.BaseURL) \o WithLeadingSlash(call.path)

\* a request for a path without leading slash under a base with a trailing one
C11_Witness ==
    /\ call.op = "Get"
    /\ client.BaseURL = Str("http://host/")
    /\ call.path = Str("api/test")
    /\ Len(call.requests) = 1
    /\ call.requests[1].url = Str("http://host/api/test")

---------------------------------------------------------------------------
(* Claims about the download destination *)

\* a download whose response had a status below 400: the name is resolved
NameResolved == call.op = "DownloadFile" /\ call.finalPath # <<>>

\* the name the Content-Disposition header gives, <<>> when it gives none
HeaderName == extractFilenameFromContentDisposition(call.resp.disposition)

\* the text of the request path after its last '/'
RECURSIVE AfterLastSlash(_)
AfterLastSlash(p) ==
    IF p = <<>> \/ p[Len(p)] = "/" THEN <<>>
    ELSE AfterLastSlash(SubSeq(p, 1, Len(p) - 1)) \o <<p[Len(p)]>>

\* the non-empty segments of a path
RECURSIVE NonEmptySegments(_)
NonEmptySegments(p) ==
    IF p = <<>> THEN <<>>
    ELSE IF p[Len(p)] = "/" THEN NonEmptySegments(SubSeq(p, 1, Len(p) - 1))
    ELSE NonEmptySegments(SubSeq(p, 1, Len(p) - Len(AfterLastSlash(p))))
             \o <<AfterLastSlash(p)>>

\* the final non-empty segment, a trailing download segment left out; <<>>
\* when there is none
FinalSegment(p) ==
    LET segs == NonEmptySegments(p)
        kept == IF segs # <<>> /\ segs[Len(segs)] = Str("download")
                THEN SubSeq(segs, 1, Len(segs) - 1) ELSE segs
    IN  IF kept = <<>> THEN <<>> ELSE kept[Len(kept)]

\* C12 as the specification states it: without a header name the filename is
\* the final non-empty segment of the request path, a trailing download
\* segment excluded, and download only when there is no such segment.
C12_FinalNonEmptySegment ==
    NameResolved =>
        call.filename =
            IF HeaderName # <<>> THEN sanitizeFilename(HeaderName)
            ELSE IF FinalSegment(call.path) # <<>> THEN FinalSegment(call.path)
            ELSE Str("download")

\* C12: the filename is (a) the sanitized filename/filename* parameter of
\* Content-Disposition when the header yields one; (b) otherwise the text of
\* the request path after its last '/', when that is neither empty nor
\* download; (c) otherwise download, which is also the name for
\* /api/files/<id>/download and for a path ending in '/'.
C12_FilenamePriority ==
    NameResolved =>
        /\ call.filename =
              IF HeaderName # <<>> THEN sanitizeFilename(HeaderName)
              ELSE IF AfterLastSlash(call.path) \notin {<<>>, Str("download")}
                   THEN AfterLastSlash(call.path)
                   ELSE Str("download")
        /\ call.saved # <<>> /\ call.outputPath = <<>> => call.saved = call.filename
        /\ call.saved # <<>> /\ ResolvedIntoDirectory =>
              /\ Dir(call.saved) = Clean(call.outputPath)
              /\ Base(call.saved) = call.filename

\* a download of /api/files/123/download without header, saved as out/download
C12_Witness ==
    /\ NameResolved
    /\ call.path = Str("/api/files/123/download")
    /\ call.resp.disposition = <<>>
    /\ call.outputPath = Str("out")
    /\ call.filename = Str("download")
    /\ call.saved = Str("out/download")

\* an output path that is given and is not an existing directory
VerbatimOutput ==
    /\ NameResolved
    /\ call.outputPath # <<>>
    /\ ~DirExists(call.disk, Clean(call.outputPath))

\* C13: a non-empty output path that is not an existing directory is the
\* destination as it stands, whatever the Content-Disposition header and the
\* request path are: the file is written there and that path is returned.
\* With an empty output path the destination is the resolved filename,
\* relative to the working directory.
C13_OutputPathVerbatim ==
    /\ VerbatimOutput =>
          /\ call.finalPath = call.outputPath
          /\ call.saved # <<>> =>
                /\ call.saved = call.outputPath
                /\ FileExists(fs, Clean(call.outputPath))
                /\ fs.files[Clean(call.outputPath)] = call.resp.body.raw
                /\ \A f \in DOMAIN fs.files :
                      f = Clean(call.outputPath) \/ FileExists(call.disk, f)
    /\ NameResolved /\ call.outputPath = <<>> =>
          /\ call.finalPath = call.filename
          /\ call.saved # <<>> =>
                /\ call.saved = call.filename
                /\ FileExists(fs, Clean(call.filename))
                /\ fs.files[Clean(call.filename)] = call.resp.body.raw

\* a response naming test.txt saved under the output path new/dir/f.bin
C13_Witness ==
    /\ VerbatimOutput
    /\ call.outputPath = Str("new/dir/f.bin")
    /\ call.resp.disposition = Str("attachment; filename=\"test.txt\"")
    /\ call.filename = Str("test.txt")
    /\ call.saved = Str("new/dir/f.bin")
    /\ FileExists(fs, Str("new/dir/f.bin"))

\* the copy of the response body into the created file failed
CopyFailed ==
    /\ NameResolved
    /\ call.err.kind = "error"
    /\ HasPrefix(call.err.text, Str("failed to write file"))

---------------------------------------------------------------------------
(* Claims about resources, requests and local faults *)

\* the exchange of the call completed: a response was received
ResponseReceived == call.op # "none" /\ call.resp # NoResp

\* C15: when an operation returns, on success and on every failure, it holds
\* open none of the resources it opened: the local file of an upload, the
\* output file of a download, the body of the response received.
C15_ResourcesClosed ==
    /\ call.open = {}
    /\ ResponseReceived => "body" \in call.opened
    /\ call.op = "UploadFile" /\ call.requests # <<>> => "file" \in call.opened
    /\ call.op = "DownloadFile" /\ (call.saved # <<>> \/ CopyFailed) =>
          call.opened = {"body", "outFile"}

\* a download whose copy failed after the response and the output file were opened
C15_Witness ==
    /\ CopyFailed
    /\ call.opened = {"body", "outFile"}
    /\ call.open = {}

\* the request was handed to the HTTP client and no response came back
TransportFailed == call.op # "none" /\ call.requests # <<>> /\ call.resp = NoResp

\* C16: a call of Get, Post, Put, Delete, UploadFile or DownloadFile sends at
\* most one request, whatever the outcome; a transport failure and a status
\* >= 400 are returned as the call's error, never retried and never dropped;
\* and the call ends with a success value or with one error, not with both.
C16_OneRequestOneResult ==
    call.op # "none" =>
        /\ Len(call.requests) <= 1
        /\ call.err.kind \in {"nil", "error", "APIError"}
        /\ call.requests = <<>> => call.err.kind = "error"
        /\ TransportFailed => call.err.kind = "error"
        /\ ErrorStatusReceived => call.err.kind = "APIError"
        /\ call.err.kind # "nil" => call.saved = <<>> /\ ~call.decoded
        /\ call.err.kind = "nil" =>
              /\ Len(call.requests) = 1
              /\ call.resp.status \in 1..399
              /\ call.op = "DownloadFile" => call.saved # <<>>

\* a Post whose exchange failed: one request sent, the failure returned
C16_Witness ==
    /\ call.op = "Post"
    /\ TransportFailed
    /\ Len(call.requests) = 1
    /\ call.err.kind = "error"
    /\ HasPrefix(call.err.text, Str("request failed [POST "))

\* the call failed with an error whose text starts with one of the prefixes
FailedWith(prefixes) ==
    /\ call.op # "none"
    /\ call.err.kind = "error"
    /\ \E p \in prefixes : HasPrefix(call.err.text, p)

\* a malformed URL, an unserializable request body, an upload file that
\* cannot be opened or read
RequestNotBuilt ==
    FailedWith({Str("invalid URL"), Str("failed to marshal request body"),
                Str("failed to open file"), Str("failed to copy file content")})

\* the output directory or the output file of a download cannot be created
OutputNotCreated ==
    FailedWith({Str("failed to create output directory"),
                Str("failed to create output file")})

\* C17 as the specification states it: after each of these failures no
\* request has been sent and the disk is as the call found it.
C17_ConstructionErrorsLocal ==
    RequestNotBuilt \/ OutputNotCreated =>
        /\ call.requests = <<>>
        /\ fs = call.disk

\* C17: when the URL is malformed, the request body cannot be serialized or
\* the upload file cannot be opened, no request has been sent and the disk is
\* as the call found it.  When the output directory or the output file of a
\* download cannot be created, the one request has been sent and answered
\* already; no file is created or changed, while directories made for the
\* output path before the failure stay.
C17_LocalFaults ==
    /\ RequestNotBuilt =>
          /\ call.requests = <<>>
          /\ call.resp = NoResp
          /\ fs = call.disk
    /\ OutputNotCreated =>
          /\ Len(call.requests) = 1
          /\ call.resp.status \in 1..399
          /\ call.saved = <<>>
          /\ fs.files = call.disk.files
          /\ call.disk.dirs \subseteq fs.dirs

\* the output file cannot be created after its directory new/dir was made
C17_Witness ==
    /\ FailedWith({Str("failed to create output file")})
    /\ call.outputPath = Str("new/dir/f.bin")
    /\ Len(call.requests) = 1
    /\ DirExists(fs, Str("new/dir"))
    /\ ~DirExists(call.disk, Str("new/dir"))

---------------------------------------------------------------------------
(* Claims about uploads and result decoding *)

\* an upload whose request went out
UploadSent == call.op = "UploadFile" /\ call.requests # <<>>

NilResultAnswered ==
    /\ call.op \in {"Get", "Post", "Put", "UploadFile"}
    /\ call.args.result = "nil"
    /\ call.resp.status \in 1..399

\* C20: with a nil result destination and a status below 400, Get, Post, Put
\* and UploadFile return success and leave the body alone, whatever it holds:
\* a body that is not JSON or that cannot be read makes no difference.
C20_NilResultIgnoresBody ==
    NilResultAnswered =>
        /\ call.err.kind = "nil"
        /\ ~call.decoded
        /\ call.value = JInvalid

\* a Get without destination whose 200 response body cannot be read
C20_Witness ==
    /\ NilResultAnswered
    /\ call.op = "Get"
    /\ ~call.resp.readOK
    /\ call.err.kind = "nil"


---------------------------------------------------------------------------
(* Claims about the client's configuration *)

\* C21 as stated: a client's configuration is immutable after construction:
\* no operation changes its base URL, its API key or its access token.
C21_ConfigurationImmutable ==
    [][client' = client]_vars

\* C21: a client's base URL is immutable after construction: no operation
\* changes it.  The access token and the API key are replaced by UpdateAuth
\* and by no other operation: a step that changes the client is an UpdateAuth
\* step, which sends nothing and leaves the disk alone.
C21_BaseURLImmutable ==
    [][/\ client'.BaseURL = client.BaseURL
       /\ client' # client => UpdateAuthCall /\ call' = call /\ fs' = fs]_vars

\* a request sent to the base URL of construction after UpdateAuth replaced
\* the credentials the client was constructed with
C21_Witness ==
    /\ client.BaseURL = Str("http://host/")
    /\ client.AccessToken = Str("tok")
    /\ client.APIKey = <<>>
    /\ call.op = "Get"
    /\ Len(call.requests) = 1
    /\ HasPrefix(call.requests[1].url, Str("http://host/api"))
    /\ call.requests[1].headers["Authorization"] = Str("Bearer tok")


\* C26: the API URL cannot be changed at runtime: SetValue with key api-url
\* or api_url returns an error, and whatever SetValue calls came before,
\* whatever the config file holds and whatever CLOUD_STORAGE_API_URL is set
\* to, LoadConfig and GetValue("api-url") return the API URL compiled into
\* the binary.
C26_APIURLCompileTimeOnly ==
    /\ call.op = "SetValue" /\ KeyField(call.cli.arg) = "APIURL" =>
           call.err.kind # "nil"
    /\ call.op = "GetValue" /\ KeyField(call.cli.arg) = "APIURL" =>
           call.err.kind = "nil" /\ call.cli.out = defaultAPIURL
    /\ call.op = "LoadConfig" =>
           call.err.kind = "nil" /\ call.cli.cfg.APIURL = defaultAPIURL


---------------------------------------------------------------------------
(* Claims about the commands *)

\* the commands that take a folder path and those that take a UUID
FolderCommands == {"folder create", "folder delete"}

IdCommands == {"file delete", "apikey revoke"}

\* the command returned an error and no request was handed to the HTTP client
FailedLocally == call.err.kind # "nil" /\ call.requests = <<>>

\* C22: in every command that takes a UUID, a folder path or a filename, an
\* argument rejected by the corresponding ValidateUUID / ValidatePath makes
\* the command return an error before any HTTP request is constructed or
\* sent; for file download, whose argument is a UUID or a path, that is an
\* argument neither ValidateUUID nor ValidatePath accepts.
C22_ValidatedBeforeRequest ==
    /\ call.op \in FolderCommands /\ ValidatePath(call.cli.arg).isErr => FailedLocally
    /\ call.op \in IdCommands /\ ValidateUUID(call.cli.arg).isErr => FailedLocally
    /\ call.op = "file download" /\ ValidateUUID(call.cli.arg).isErr
           /\ ValidatePath(call.cli.arg).isErr => FailedLocally


---------------------------------------------------------------------------
(* Claims about ValidateEmail, ValidatePageSize and well-formed filenames *)

\* how often the character c occurs in s
CountOf(s, c) == Cardinality({i \in 1..Len(s) : s[i] = c})

\* the position of the last c in s, 0 when there is none
LastIndexOf(s, c) ==
    IF \E i \in 1..Len(s) : s[i] = c
    THEN CHOOSE i \in 1..Len(s) : s[i] = c /\ \A j \in (i + 1)..Len(s) : s[j] # c
    ELSE 0

\* the final dot-separated label of s
FinalLabel(s) == SubSeq(s, LastIndexOf(s, ".") + 1, Len(s))

\* at least two characters, all of them letters
IsTLD(l) == Len(l) >= 2 /\ \A i \in 1..Len(l) : IsLetter(l[i])

\* local@domain.tld: a local part over letters, digits and ._%+-, one '@', a
\* domain over letters, digits and .-, a '.', and an alphabetic final label
\* of two characters or more; no part is empty
IsLocalAtDomainTLD(s) ==
    /\ CountOf(s, "@") = 1
    /\ LET at     == LastIndexOf(s, "@")
           dot    == LastIndexOf(s, ".")
           local  == SubSeq(s, 1, at - 1)
           domain == SubSeq(s, at + 1, dot - 1)
       IN  /\ dot > at
           /\ local # <<>> /\ \A i \in 1..Len(local) : IsLocalChar(local[i])
           /\ domain # <<>> /\ \A i \in 1..Len(domain) : IsDomainChar(domain[i])
           /\ IsTLD(FinalLabel(s))

\* C23: ValidateEmail fails for the empty string, for every string with no
\* '@' or more than one, for every string containing a space, and for every
\* string whose final dot-separated label is not two or more letters; it
\* succeeds for every string of the form local@domain.tld.
C23_ValidateEmailRules ==
    (fn = "ValidateEmail" /\ res.done) =>
        /\ arg = <<>> => res.val.isErr
        /\ CountOf(arg, "@") # 1 => res.val.isErr
        /\ CountOf(arg, " ") > 0 => res.val.isErr
        /\ ~IsTLD(FinalLabel(arg)) => res.val.isErr
        /\ IsLocalAtDomainTLD(arg) => res.val = Nil

\* an address with a tag in the local part is accepted
C23_Witness ==
    /\ fn = "ValidateEmail" /\ res.done
    /\ arg = Str("user+tag@example.com") /\ res.val = Nil

\* C24: for every integer n, ValidatePageSize(n) succeeds if and only if
\* 1 <= n <= 100.
C24_PageSizeRange ==
    (fn = "ValidatePageSize" /\ res.done) =>
        (res.val = Nil <=> (1 <= arg /\ arg <= 100))

\* the largest page size is accepted
C24_Witness ==
    /\ fn = "ValidatePageSize" /\ res.done
    /\ arg = 100 /\ res.val = Nil

\* a name of 1 to 51 letters, digits, '-', '_' and '.', not starting with '.'
\* and not a reserved device name
IsWellFormedName(s) ==
    /\ Len(s) >= 1 /\ Len(s) <= MaxValidNameLen
    /\ \A i \in 1..Len(s) : IsLetter(s[i]) \/ IsDigit(s[i]) \/ s[i] \in {"-", "_", "."}
    /\ s[1] # "."
    /\ ~IsReservedName(s)

\* C25: ValidateFilename never rejects a well-formed name: every string of 1
\* to 51 characters drawn from letters, digits, '-', '_' and '.', whose first
\* character is not '.', and which is not a reserved device name (alone or
\* followed by '.'), passes validation.
C25_WellFormedNamesPass ==
    (fn = "ValidateFilename" /\ res.done /\ IsWellFormedName(arg)) => res.val = Nil

\* the longest generated name, an underscore and fifty dots, passes
C25_Witness ==
    /\ fn = "ValidateFilename" /\ res.done
    /\ arg = [i \in 1..51 |-> IF i = 1 THEN "_" ELSE "."]
    /\ res.val = Nil


\* the commands that delete, and whether the argument got past their check
\* so that the prompt is reached
DeleteCommands == {"file delete", "folder delete", "apikey revoke"}

PromptReached ==
    CASE call.op = "file delete" -> ~ValidateUUID(call.cli.arg).isErr
      [] call.op = "folder delete" -> HasPrefix(call.cli.arg, Str("/"))
      [] call.op = "apikey revoke" -> uuidParse(call.cli.arg)
      [] OTHER -> FALSE

\* the line typed at the prompt, without the blanks around it
FirstLine(stdin) ==
    IF \E i \in 1..Len(stdin) : stdin[i] = "\n"
    THEN SubSeq(stdin, 1, (CHOOSE i \in 1..Len(stdin) :
                              stdin[i] = "\n" /\ \A j \in 1..(i - 1) : stdin[j] # "\n") - 1)
    ELSE stdin

AnsweredYes == ToLower(TrimSpace(FirstLine(call.cli.stdin))) \in {Str("y"), Str("yes")}

\* C27: file delete, folder delete and apikey revoke send their DELETE
\* request only if the skip flag was given or the user answered the prompt
\* with y or yes, whatever the case; on any other answer, or when the answer
\* cannot be read, the command ends successfully without sending a request.
C27_DeleteOnlyWhenConfirmed ==
    call.op \in DeleteCommands =>
        /\ call.requests # <<>> => call.cli.skip \/ AnsweredYes
        /\ (PromptReached /\ ~call.cli.skip /\ ~AnsweredYes) =>
               call.err.kind = "nil" /\ call.requests = <<>>


\* the configuration a new process loads
Stored == LoadConfig([config EXCEPT !.viper = NilViper])

---------------------------------------------------------------------------
(* Claims about the kinds of error and the disk of a failed download *)

\* C29: the three kinds of error are disjoint by cause: an operation returns
\* an APIError only if a response with status >= 400 was received; a
\* transport failure (no response, a timeout included) and a construction
\* failure (no request) are returned as plain errors, never as an APIError;
\* and a response with status < 400 never produces an APIError.
C29_ErrorKindsByCause ==
    call.op # "none" =>
        /\ call.err.kind = "APIError" =>
               /\ ResponseReceived /\ call.resp.status >= 400
               /\ call.err.api.StatusCode = call.resp.status
        /\ TransportFailed =>
               /\ call.err.kind = "error"
               /\ HasPrefix(call.err.text, Str("request failed ["))
        /\ call.requests = <<>> => call.err.kind = "error" /\ call.resp = NoResp
        /\ ResponseReceived /\ call.resp.status < 400 => call.err.kind # "APIError"

\* a Put that timed out: a plain error naming the method and the URL
C29_Witness ==
    /\ call.op = "Put"
    /\ TransportFailed
    /\ call.err.kind = "error"
    /\ call.err.text = Str("request failed [PUT http://host/api/test]: context deadline exceeded")


\* C30: when DownloadFile fails because of a transport error or a response
\* with status >= 400, the local filesystem is as the call found it: no
\* output file is created or truncated and no parent directory is created,
\* and no path is returned.
C30_FailedDownloadLeavesDisk ==
    (call.op = "DownloadFile" /\ (TransportFailed \/ ErrorStatusReceived)) =>
        /\ fs = call.disk
        /\ "outFile" \notin call.opened
        /\ call.saved = <<>>
        /\ call.finalPath = <<>>

\* a download into new/dir/f.bin answered 500: new/dir has not been made
C30_Witness ==
    /\ call.op = "DownloadFile"
    /\ call.outputPath = Str("new/dir/f.bin")
    /\ call.resp.status = 500
    /\ call.err.kind = "APIError"
    /\ fs = call.disk
    /\ ~DirExists(fs, Str("new/dir"))
    /\ ~DirExists(fs, Str("new"))

===========================================================================
